---- MODULE Spec2Model ----
(***************************************************************************)
(* Rules-and-resolution engine of the duel-commander game server:          *)
(* backend/src/game-engine/rulesEngine.js (RulesEngine, Stack,             *)
(* TriggeredAbilities, StateBasedActions, PriorityManager), the Game       *)
(* object of engine.js and the parts of cardEffects.js that bring mana and *)
(* tokens into a game.                                                     *)
(*                                                                         *)
(* processAction is modelled at the granularity of its loop heads: one     *)
(* step for legality + replacement + execution, one step per performSBA    *)
(* pass, one for TriggeredAbilities.check, one per evaluation of the       *)
(* priority while-condition, one per player asked, one per stack           *)
(* resolution.  While a call is in progress (pc # "idle") only its own     *)
(* next step is enabled, so the steps of a call are never interleaved with *)
(* anything else.                                                          *)
(***************************************************************************)
EXTENDS Integers, Sequences, FiniteSets, TLC

VARIABLES
    game,       \* the Game object and its RulesEngine: zones, players, cards, stack, triggers
    callDepth,  \* the number of processAction calls in progress (nested calls included)
    pc,         \* where the innermost call in progress stands ("idle": no call in progress)
    scanIdx,    \* handlePriority: index in game.players of the next player to ask
    outcome,    \* how the most recent external call ended
    pre,        \* history: the game as it was when the call in progress was made
    lastCall,   \* history: the processAction call made in this step: <<[player, action]>>
    sbaPasses,  \* history: performSBA passes that reported a change, in the check() in progress
    sbaBudget,  \* history: permanents on battlefields + players not lost when that check() began
    asked,      \* history: the players asked by the scan in progress, with what they answered
    post,       \* history: what has run since the last stack resolution of this call
    applied,    \* history: the applyEffect call made in this step, with what it returned
    dealt,      \* history: the targets of the latest damage-template call that dealt
                \* lethal damage, until a state-based check has completed
    training    \* the TrainingSystem of routes/api.js: its isTraining flag, its
                \* currentGeneration, and every startTraining call with where it stands

engineVars == <<game, callDepth, pc, scanIdx, outcome, pre, lastCall, sbaPasses, sbaBudget, asked,
                post, applied, dealt>>

vars == <<game, callDepth, pc, scanIdx, outcome, pre, lastCall, sbaPasses, sbaBudget, asked, post,
          applied, dealt, training>>

----------------------------------------------------------------------------
(* Bounds of the model *)

\* tokens the create_token template may mint in one run
MaxTokens == 2
\* cap on a player's mana pool total (mana is added two at a time)
MaxMana == 2
\* performSBA passes after which a check() that still reports changes is cut off in the model
MaxSBAPasses == 4
MaxReplacements == 3
\* startTraining calls in one behaviour
MaxRuns == 3
\* the largest maxGenerations a training configuration asks for
MaxGenerations == 2

----------------------------------------------------------------------------
(* Players: createGame adds the human player, then the bot *)

StartingLife == 20

Players == {1, 2}

PlayerOrder == <<1, 2>>

IsHuman(p) == p = 1

NoPlayer == 0

\* getOpponent: the first player of game.players that is not `player`
GetOpponent(p) == PlayerOrder[CHOOSE i \in 1..Len(PlayerOrder) :
                      /\ PlayerOrder[i] # p
                      /\ \A j \in 1..(i-1) : PlayerOrder[j] = p]

----------------------------------------------------------------------------
(* Sequences *)

Range(s) == {s[i] : i \in 1..Len(s)}

InZone(zone, id) == id \in Range(zone)

\* Array.prototype.filter(c => c.id !== id)
RECURSIVE Without(_, _)
Without(s, id) ==
    IF s = <<>> THEN <<>>
    ELSE IF Head(s) = id THEN Without(Tail(s), id)
    ELSE <<Head(s)>> \o Without(Tail(s), id)

\* Array.prototype.splice(i, 1)
RemoveAt(s, i) == SubSeq(s, 1, i-1) \o SubSeq(s, i+1, Len(s))

\* Array.prototype.indexOf (0 when absent; the code's -1)
IndexOf(s, id) ==
    IF id \in Range(s) THEN CHOOSE i \in 1..Len(s) : s[i] = id /\ \A j \in 1..(i-1) : s[j] # id
    ELSE 0

\* zone.splice(zone.indexOf(card), 1); with indexOf = -1 JavaScript removes the last element
SpliceIndexOf(s, id) ==
    IF s = <<>> THEN s
    ELSE IF IndexOf(s, id) = 0 THEN RemoveAt(s, Len(s))
    ELSE RemoveAt(s, IndexOf(s, id))

----------------------------------------------------------------------------
(* Cards.  A card is an object with the fields the engine reads; a field   *)
(* the card-definition leaves undefined has the value JavaScript coerces   *)
(* undefined/null to where the engine reads it (0, false, empty list),     *)
(* except summoningSick, where undefined counts as sick (!== false).       *)

NoCard == "none"

NoAbilities == <<>>

BlankCard == [type |-> {}, manaCost |-> 0, power |-> 0, toughness |-> 0, damage |-> 0,
              tapped |-> FALSE, summoningSick |-> TRUE, haste |-> FALSE,
              isAttacking |-> FALSE, isBlocking |-> FALSE, isToken |-> FALSE,
              isCommander |-> FALSE, flash |-> FALSE, cannotAttack |-> FALSE,
              cannotBlock |-> FALSE, defender |-> FALSE, flying |-> FALSE, reach |-> FALSE,
              canFly |-> FALSE,
              cannotBeBlocked |-> FALSE, intimidate |-> FALSE, colors |-> {},
              dealText |-> FALSE,
              enchantmentTarget |-> NoCard,
              triggeredAbilities |-> <<>>, abilities |-> NoAbilities]

\* an activated ability whose cost is to tap its source
TapAbility == [id |-> "tap", cost |-> [mana |-> 0, life |-> 0, tapSource |-> TRUE],
               hasFlash |-> FALSE, requiresTap |-> FALSE, timing |-> {}, requiresTarget |-> FALSE]

\* an activated ability that costs 20 life
PainAbility == [id |-> "pain", cost |-> [mana |-> 0, life |-> 20, tapSource |-> FALSE],
                hasFlash |-> FALSE, requiresTap |-> FALSE, timing |-> {}, requiresTarget |-> FALSE]

CardNames ==
    {"Forest", "Cobra", "Bolt", "Arbor", "Elf", "Wastes", "Relic", "Grove", "Bear", "Ambush",
     "Drake", "Wall"}

TokenNames == <<"token_1", "token_2", "token_3", "token_4">>

TokenIds == {TokenNames[i] : i \in 1..MaxTokens}

Ids == CardNames \cup TokenIds

\* The decks: mkCard for each card of the list, plus the trigger and ability
\* descriptors a card-definition loader attaches.  Arbor is a 'Land Creature'
\* card given no power or toughness (mkCard leaves them null).
CardDef(c) ==
    CASE c = "Forest" -> [BlankCard EXCEPT !.type = {"Land"},
                            !.triggeredAbilities = <<"when_land_played">>]
      [] c = "Cobra"  -> [BlankCard EXCEPT !.type = {"Creature"}, !.manaCost = 1, !.power = 2,
                            !.toughness = 1,
                            !.triggeredAbilities = <<"when_land_played", "when_creature_dies">>]
      [] c = "Bolt"   -> [BlankCard EXCEPT !.type = {"Instant"}, !.manaCost = 2, !.dealText = TRUE]
      [] c = "Arbor"  -> [BlankCard EXCEPT !.type = {"Land", "Creature"}]
      [] c = "Elf"    -> [BlankCard EXCEPT !.type = {"Legendary", "Creature"}, !.manaCost = 2,
                            !.power = 2, !.toughness = 2, !.isCommander = TRUE]
      [] c = "Wastes" -> [BlankCard EXCEPT !.type = {"Land"},
                            !.abilities = <<PainAbility, TapAbility>>]
      [] c = "Relic"  -> [BlankCard EXCEPT !.type = {"Artifact"}, !.manaCost = 5]
      [] c = "Grove"  -> [BlankCard EXCEPT !.type = {"Land"}]
      [] c = "Bear"   -> [BlankCard EXCEPT !.type = {"Creature"}, !.manaCost = 2, !.power = 2,
                            !.toughness = 2]
      [] c = "Ambush" -> [BlankCard EXCEPT !.type = {"Creature"}, !.manaCost = 1, !.power = 1,
                            !.toughness = 1, !.flash = TRUE]
      [] c = "Drake"  -> [BlankCard EXCEPT !.type = {"Land", "Creature"}, !.power = 1,
                            !.toughness = 1, !.flying = TRUE, !.haste = TRUE]
      [] c = "Wall"   -> [BlankCard EXCEPT !.type = {"Land", "Creature"}, !.power = 1,
                            !.toughness = 1, !.defender = TRUE, !.haste = TRUE,
                            !.triggeredAbilities = <<"when_land_played">>]
      [] OTHER        -> BlankCard

\* card.type?.includes(word)
TypeIncludes(card, word) == word \in card.type

----------------------------------------------------------------------------
(* Actions submitted to processAction *)

Action(type, cardId, fromCommandZone, abilityId, list) ==
    [type |-> type, cardId |-> cardId, fromCommandZone |-> fromCommandZone,
     abilityId |-> abilityId, list |-> list]

PlayLand(c) == Action("play-land", c, FALSE, "none", <<>>)

Cast(c, fromCommandZone) == Action("cast", c, fromCommandZone, "none", <<>>)

Activate(c, abilityId) == Action("activate", c, FALSE, abilityId, <<>>)

Attack(attackers) == Action("attack", NoCard, FALSE, "none", attackers)

Block(blockers) == Action("block", NoCard, FALSE, "none", blockers)

Pass == Action("pass", NoCard, FALSE, "none", <<>>)

\* What Bot.decide (an array of actions) and AdvancedBot.decide (a Promise) hand
\* to the priority loop: a truthy value whose .type is undefined.
Typeless == Action("undefined", NoCard, FALSE, "none", <<>>)

\* getPlayerAction of a human player: null
Null == Action("null", NoCard, FALSE, "none", <<>>)

----------------------------------------------------------------------------
(* RulesEngine: utility methods *)

FindCardInZone(zone, cardId) == InZone(zone, cardId)

\* findAbility: index of the first ability with that id, 0 when there is none
FindAbility(card, abilityId) ==
    IF \E i \in 1..Len(card.abilities) : card.abilities[i].id = abilityId
    THEN CHOOSE i \in 1..Len(card.abilities) :
            /\ card.abilities[i].id = abilityId
            /\ \A j \in 1..(i-1) : card.abilities[j].id # abilityId
    ELSE 0

IsSummoningSick(card) == card.summoningSick # FALSE

CanCastAtThisTime(g, card) ==
    IF TypeIncludes(card, "Instant") \/ card.flash THEN TRUE
    ELSE IF g.phase = "main1" \/ g.phase = "main2" THEN Len(g.stack) = 0
    ELSE FALSE

\* the commanderTaxCount of the first player whose command zone holds the card (0 when none)
CommanderTaxOf(g, cardId) ==
    IF \E i \in 1..Len(PlayerOrder) : InZone(g.commandZone[PlayerOrder[i]], cardId)
    THEN g.commanderTaxCount[PlayerOrder[CHOOSE i \in 1..Len(PlayerOrder) :
            /\ InZone(g.commandZone[PlayerOrder[i]], cardId)
            /\ \A j \in 1..(i-1) : ~InZone(g.commandZone[PlayerOrder[j]], cardId)]]
    ELSE 0

GetManaCost(g, cardId, fromCommandZone) ==
    IF fromCommandZone /\ g.card[cardId].isCommander
    THEN g.card[cardId].manaCost + 2 * CommanderTaxOf(g, cardId)
    ELSE g.card[cardId].manaCost

\* variant: a pool one short of the cost is accepted
HasEnoughManaOffByOne(g, p, cost) == g.manaPool[p] + 1 >= cost

HasEnoughMana(g, p, cost) == g.manaPool[p] >= cost

\* variant: paying empties the pool
PayManaCostAll(g, p, cost) ==
    IF g.manaPool[p] >= cost THEN [g EXCEPT !.manaPool[p] = 0] ELSE g

PayManaCost(g, p, cost) ==
    IF g.manaPool[p] >= cost THEN [g EXCEPT !.manaPool[p] = @ - cost] ELSE g

CanPayCost(g, p, cost) ==
    IF cost.mana # 0 THEN HasEnoughMana(g, p, cost.mana) ELSE TRUE

\* payCosts(player, costs); `source` is the card costs.tap.source refers to
PayCosts(g, p, cost, source) ==
    LET g1 == IF cost.mana # 0 THEN PayManaCost(g, p, cost.mana) ELSE g
        g2 == IF cost.tapSource THEN [g1 EXCEPT !.card[source].tapped = TRUE] ELSE g1
    IN  IF cost.life # 0 THEN [g2 EXCEPT !.life[p] = @ - cost.life] ELSE g2

HasLegalTargets(ability, p) == TRUE

SharesColor(card1, card2) == card1.colors \cap card2.colors # {}

\* canBlock(blocker, attacker): both arguments are objects read field by field
CanBlock(blocker, attacker) ==
    IF blocker.cannotBlock THEN FALSE
    ELSE IF attacker.cannotBeBlocked THEN FALSE
    ELSE IF attacker.flying /\ ~blocker.flying /\ ~blocker.reach THEN FALSE
    ELSE IF attacker.intimidate
         THEN TypeIncludes(blocker, "Artifact") \/ SharesColor(blocker, attacker)
    ELSE TRUE

\* game.currentAttacker is a player object: every card field read off it is undefined
PlayerAsCard(p) == BlankCard

----------------------------------------------------------------------------
(* TriggeredAbilities *)

DoesTriggerMatch(condition, eventType) ==
    CASE condition = "when_creature_enters"   -> eventType = "creature_enters_battlefield"
      [] condition = "when_creature_dies"     -> eventType = "creature_dies"
      [] condition = "when_spell_cast"        -> eventType = "spell_cast"
      [] condition = "when_land_played"       -> eventType = "land_played"
      [] condition = "at_beginning_of_upkeep" -> eventType = "upkeep_start"
      [] condition = "at_end_of_turn"         -> eventType = "turn_end"
      [] OTHER -> FALSE

\* checkCardTriggers: the pending triggers one card contributes, in ability order
CheckCardTriggers(g, cardId, eventType, p) ==
    LET ts == g.card[cardId].triggeredAbilities
        F[i \in 0..Len(ts)] ==
            IF i = 0 THEN <<>>
            ELSE IF DoesTriggerMatch(ts[i], eventType)
                 THEN Append(F[i-1], [trigger |-> ts[i], source |-> cardId,
                                      controller |-> p, event |-> eventType])
            ELSE F[i-1]
    IN  F[Len(ts)]

CheckZoneTriggers(g, zone, eventType, p) ==
    LET F[i \in 0..Len(zone)] ==
            IF i = 0 THEN <<>> ELSE F[i-1] \o CheckCardTriggers(g, zone[i], eventType, p)
    IN  F[Len(zone)]

\* variant: the hand is scanned before the battlefield
CheckForTriggersHandFirst(g, eventType) ==
    LET F[i \in 0..Len(PlayerOrder)] ==
            IF i = 0 THEN <<>>
            ELSE LET p == PlayerOrder[i]
                 IN  F[i-1] \o CheckZoneTriggers(g, g.hand[p], eventType, p)
                            \o CheckZoneTriggers(g, g.battlefield[p], eventType, p)
                            \o CheckZoneTriggers(g, g.graveyard[p], eventType, p)
    IN  F[Len(PlayerOrder)]

\* checkForTriggers: players in game.players order; battlefield, hand, graveyard
CheckForTriggers(g, eventType) ==
    LET F[i \in 0..Len(PlayerOrder)] ==
            IF i = 0 THEN <<>>
            ELSE LET p == PlayerOrder[i]
                 IN  F[i-1] \o CheckZoneTriggers(g, g.battlefield[p], eventType, p)
                            \o CheckZoneTriggers(g, g.hand[p], eventType, p)
                            \o CheckZoneTriggers(g, g.graveyard[p], eventType, p)
    IN  F[Len(PlayerOrder)]

RecordEvent(g, eventType) ==
    LET g1 == [g EXCEPT !.triggeredEvents = Append(@, eventType)]
    IN  [g1 EXCEPT !.pendingTriggers = @ \o CheckForTriggers(g1, eventType)]

----------------------------------------------------------------------------
(* Stack *)

\* variant: a stack of one item counts as empty
StackIsEmptyOffByOne(items) == Len(items) <= 1

StackIsEmpty(items) == Len(items) = 0

StackPush(items, item) == Append(items, item)

\* variant: shift() instead of pop(), the first element of items
StackPopFirst(items) == [item |-> Head(items), rest |-> Tail(items)]

\* pop(): the last element of items
StackPop(items) == [item |-> items[Len(items)], rest |-> SubSeq(items, 1, Len(items) - 1)]

\* addToStack(trigger)
AddToStack(g, t) ==
    [g EXCEPT !.stack = StackPush(@, [type |-> "triggered_ability", card |-> t.source,
                                      controller |-> t.controller, trigger |-> t.trigger])]

\* variant: the pending triggers are left in the queue
TriggersCheckSkipped(g) == g

\* TriggeredAbilities.check: evaluateTrigger puts every pending trigger on the stack
TriggersCheck(g) ==
    LET F[i \in 0..Len(g.pendingTriggers)] ==
            IF i = 0 THEN g ELSE AddToStack(F[i-1], g.pendingTriggers[i])
    IN  [F[Len(g.pendingTriggers)] EXCEPT !.pendingTriggers = <<>>]

\* extractDamageAmount: the number in front of 'damage' in the card's text; the
\* one card with such a text reads 'deals 3 damage'
ExtractDamageAmount(card) == IF card.dealText THEN 3 ELSE 0

\* applySpellEffects.  For a card whose text includes 'deal': with targets the
\* first one loses life (a card target gets a life field nothing reads);
\* without, controller.game.players is read, and a player object has no game
\* field.
ApplySpellEffects(g, item) ==
    LET card == g.card[item.card] IN
    IF ~card.dealText THEN [g |-> g, threw |-> "none"]
    ELSE IF Len(item.targets) > 0
    THEN [g |-> IF item.targets[1].kind = "player"
                THEN [g EXCEPT !.life[item.targets[1].ref] = @ - ExtractDamageAmount(card)]
                ELSE g,
          threw |-> "none"]
    ELSE [g |-> g, threw |-> "TypeError"]

\* resolveSpell
ResolveSpell(g, item) ==
    LET card == g.card[item.card] IN
    IF TypeIncludes(card, "Creature")
    THEN [g |-> [g EXCEPT !.card[item.card].summoningSick = TRUE,
                          !.battlefield[item.controller] = Append(@, item.card)],
          threw |-> "none"]
    ELSE IF TypeIncludes(card, "Instant") \/ TypeIncludes(card, "Sorcery")
    THEN LET r == ApplySpellEffects(g, item)
         IN  IF r.threw # "none" THEN r
             ELSE [g |-> [r.g EXCEPT !.graveyard[item.controller] = Append(@, item.card)],
                   threw |-> "none"]
    ELSE [g |-> g, threw |-> "none"]

\* variant: every item is resolved as a spell
ResolveItemAsSpell(g, item) == ResolveSpell(g, item)

\* resolveItem: spell and ability are dispatched, any other type falls through
ResolveItem(g, item) ==
    CASE item.type = "spell" -> ResolveSpell(g, item)
      [] OTHER -> [g |-> g, threw |-> "none"]

\* resolve(): pop, then dispatch
StackResolve(g) ==
    LET popped == StackPop(g.stack)
    IN  ResolveItem([g EXCEPT !.stack = popped.rest], popped.item)

----------------------------------------------------------------------------
(* RulesEngine: legality *)

\* variant: the one-land-per-turn test is left out
CanPlayLandNoLimit(g, p, cardId) ==
    /\ FindCardInZone(g.hand[p], cardId)
    /\ TypeIncludes(g.card[cardId], "Land")
    /\ (g.phase = "main1" \/ g.phase = "main2")
    /\ ~(Len(g.stack) > 0)

CanPlayLand(g, p, cardId) ==
    /\ FindCardInZone(g.hand[p], cardId)
    /\ TypeIncludes(g.card[cardId], "Land")
    /\ ~(g.landsPlayedThisTurn[p] >= 1)
    /\ (g.phase = "main1" \/ g.phase = "main2")
    /\ ~(Len(g.stack) > 0)

CanCastSpell(g, p, cardId, fromCommandZone) ==
    LET zone == IF fromCommandZone THEN g.commandZone[p] ELSE g.hand[p] IN
    /\ FindCardInZone(zone, cardId)
    /\ CanCastAtThisTime(g, g.card[cardId])
    /\ HasEnoughMana(g, p, GetManaCost(g, cardId, fromCommandZone))
    /\ ~(TypeIncludes(g.card[cardId], "Creature") /\ g.phase = "combat")

CanActivateAbility(g, p, cardId, abilityId) ==
    /\ FindCardInZone(g.battlefield[p], cardId)
    /\ FindAbility(g.card[cardId], abilityId) # 0
    /\ LET card == g.card[cardId]
           ability == card.abilities[FindAbility(card, abilityId)]
       IN  /\ ~(TypeIncludes(card, "Creature") /\ IsSummoningSick(card) /\ ~ability.hasFlash)
           /\ ~(ability.timing # {} /\ g.phase \notin ability.timing)
           /\ CanPayCost(g, p, ability.cost)
           /\ ~(ability.requiresTarget /\ ~HasLegalTargets(ability, p))

\* player.id: a uuid, distinct from every card id
PlayerId(p) == IF p = 1 THEN "player_1" ELSE "player_2"

\* variant: a defender is never barred from attacking
DefenderBarredNever(attacker, attackers, opponent) == FALSE

\* attacker.defender && !attackers.includes(opponent.id)
DefenderBarred(attacker, attackers, opponent) ==
    attacker.defender /\ ~InZone(attackers, PlayerId(opponent))

\* canDeclareAttackers: every element of the list is looked up on the battlefield
CanDeclareAttackers(g, p, attackers) ==
    /\ ~(g.phase # "combat" \/ g.combatStep # "declare_attackers")
    /\ \A i \in 1..Len(attackers) :
          LET attackerId == attackers[i] IN
          /\ FindCardInZone(g.battlefield[p], attackerId)
          /\ LET attacker == g.card[attackerId] IN
             /\ TypeIncludes(attacker, "Creature")
             /\ ~attacker.tapped
             /\ ~(IsSummoningSick(attacker) /\ ~attacker.haste)
             /\ ~(attacker.power <= 0)
             /\ ~attacker.cannotAttack
             /\ ~DefenderBarred(attacker, attackers, GetOpponent(p))

CanDeclareBlockers(g, p, blockers) ==
    /\ ~(g.phase # "combat" \/ g.combatStep # "declare_blockers")
    /\ g.currentAttacker # NoPlayer
    /\ \A i \in 1..Len(blockers) :
          LET blockerId == blockers[i] IN
          /\ FindCardInZone(g.battlefield[p], blockerId)
          /\ LET blocker == g.card[blockerId] IN
             /\ TypeIncludes(blocker, "Creature")
             /\ ~blocker.tapped
             /\ ~blocker.cannotBlock
             /\ CanBlock(blocker, PlayerAsCard(g.currentAttacker))

IsActionLegal(g, p, action) ==
    CASE action.type = "play-land" -> CanPlayLand(g, p, action.cardId)
      [] action.type = "cast"      -> CanCastSpell(g, p, action.cardId, action.fromCommandZone)
      [] action.type = "activate"  -> CanActivateAbility(g, p, action.cardId, action.abilityId)
      [] action.type = "attack"    -> CanDeclareAttackers(g, p, action.list)
      [] action.type = "block"     -> CanDeclareBlockers(g, p, action.list)
      [] action.type = "pass"      -> TRUE
      [] OTHER -> FALSE

----------------------------------------------------------------------------
(* RulesEngine: execution.  Each executor yields the game it leaves and    *)
(* the exception it ends with ("none" when it returns).                    *)

ExecutePlayLand(g, p, cardId) ==
    IF ~FindCardInZone(g.hand[p], cardId) THEN [g |-> g, threw |-> "none"]
    ELSE LET g1 == [g EXCEPT !.hand[p] = Without(@, cardId),
                             !.battlefield[p] = Append(@, cardId),
                             !.landsPlayedThisTurn[p] = @ + 1]
         IN  [g |-> RecordEvent(g1, "land_played"), threw |-> "none"]

\* executeCastSpell(player, cardId, fromCommandZone): the stack item is built
\* from `action.targets`, and `action` is not a name in scope of this method
\* (the module is strict code): evaluating it raises a ReferenceError after the
\* cost is paid and the card is spliced out of its zone, before Stack.push.
ExecuteCastSpell(g, p, cardId, fromCommandZone) ==
    LET zone == IF fromCommandZone THEN g.commandZone[p] ELSE g.hand[p] IN
    IF ~FindCardInZone(zone, cardId) THEN [g |-> g, threw |-> "none"]
    ELSE LET g1 == PayManaCost(g, p, GetManaCost(g, cardId, fromCommandZone))
             g2 == IF fromCommandZone
                   THEN [g1 EXCEPT !.commandZone[p] = SpliceIndexOf(@, cardId)]
                   ELSE [g1 EXCEPT !.hand[p] = SpliceIndexOf(@, cardId)]
         IN  [g |-> g2, threw |-> "ReferenceError"]

\* executeActivateAbility: the same out-of-scope `action.targets`, after payCosts
ExecuteActivateAbility(g, p, cardId, abilityId) ==
    IF ~FindCardInZone(g.battlefield[p], cardId) THEN [g |-> g, threw |-> "none"]
    ELSE IF FindAbility(g.card[cardId], abilityId) = 0 THEN [g |-> g, threw |-> "none"]
    ELSE LET ability == g.card[cardId].abilities[FindAbility(g.card[cardId], abilityId)]
         IN  [g |-> PayCosts(g, p, ability.cost, cardId), threw |-> "ReferenceError"]

ExecuteAttack(g, p, attackers) ==
    LET g0 == [g EXCEPT !.currentAttacker = p, !.currentDefender = GetOpponent(p),
                        !.attackingCreatures = <<>>]
        F[i \in 0..Len(attackers)] ==
            IF i = 0 THEN g0
            ELSE IF FindCardInZone(F[i-1].battlefield[p], attackers[i])
                 THEN [F[i-1] EXCEPT !.card[attackers[i]].tapped = TRUE,
                                     !.card[attackers[i]].isAttacking = TRUE,
                                     !.attackingCreatures = Append(@, attackers[i])]
            ELSE F[i-1]
    IN  [g |-> [F[Len(attackers)] EXCEPT !.combatStep = "declare_blockers"], threw |-> "none"]

\* blockingAssignments: attacker id -> list of blockers; absent keys are not in the domain
ExecuteBlock(g, p, blockers) ==
    IF g.currentAttacker = NoPlayer THEN [g |-> g, threw |-> "none"]
    ELSE
    LET g0 == [g EXCEPT !.blockingAssignments = <<>>]
        F[i \in 0..Len(blockers)] ==
            IF i = 0 THEN g0
            ELSE IF FindCardInZone(F[i-1].battlefield[p], blockers[i])
                 THEN LET g1 == [F[i-1] EXCEPT !.card[blockers[i]].isBlocking = TRUE]
                      IN  IF Len(g1.attackingCreatures) > 0
                          THEN LET target == g1.attackingCreatures[1]
                                   old == IF target \in DOMAIN g1.blockingAssignments
                                          THEN g1.blockingAssignments[target] ELSE <<>>
                               IN  [g1 EXCEPT !.blockingAssignments =
                                       [k \in (DOMAIN @) \cup {target} |->
                                           IF k = target THEN Append(old, blockers[i]) ELSE @[k]]]
                          ELSE g1
            ELSE F[i-1]
    IN  [g |-> [F[Len(blockers)] EXCEPT !.combatStep = "combat_damage"], threw |-> "none"]

ExecuteAction(g, p, action) ==
    CASE action.type = "play-land" -> ExecutePlayLand(g, p, action.cardId)
      [] action.type = "cast"      -> ExecuteCastSpell(g, p, action.cardId, action.fromCommandZone)
      [] action.type = "activate"  -> ExecuteActivateAbility(g, p, action.cardId, action.abilityId)
      [] action.type = "attack"    -> ExecuteAttack(g, p, action.list)
      [] action.type = "block"     -> ExecuteBlock(g, p, action.list)
      [] OTHER -> [g |-> g, threw |-> "none"]

\* variant: a zone-change rule also replaces land plays
DoesReplaceLandPlays(replacement, action) ==
    CASE replacement.type = "damage_prevention"       -> action.type = "damage"
      [] replacement.type = "card_draw_replacement"   -> action.type = "draw"
      [] replacement.type = "zone_change_replacement" -> action.type \in {"move_card", "play-land"}
      [] OTHER -> FALSE

\* doesReplace: the rule's type against the type of the action
DoesReplace(replacement, action) ==
    CASE replacement.type = "damage_prevention"       -> action.type = "damage"
      [] replacement.type = "card_draw_replacement"   -> action.type = "draw"
      [] replacement.type = "zone_change_replacement" -> action.type = "move_card"
      [] OTHER -> FALSE

\* replacement.replace(modifiedAction): the rule's own function, supplied by
\* whoever registered the rule; three such functions are modelled
Replace(replacement, action) ==
    CASE replacement.replace = "prevent"  -> [action EXCEPT !.amount = 0]
      [] replacement.replace = "increase" -> [action EXCEPT !.amount = @ + 1]
      [] replacement.replace = "redirect" -> [action EXCEPT !.type = "draw"]

\* variant: the first matching rule wins
ReplacementsApplyFirstMatch(replacements, action) ==
    LET matching == {i \in 1..Len(replacements) : DoesReplace(replacements[i], action)}
    IN  IF matching = {} THEN action
        ELSE Replace(replacements[CHOOSE i \in matching : \A j \in matching : i <= j], action)

\* ReplacementEffects.apply: a shallow copy of the action, then every registered
\* rule in turn; the test looks at the action as passed in, the rule is applied
\* to the action as modified so far
ReplacementsApply(replacements, action) ==
    LET modifiedAction[i \in 0..Len(replacements)] ==
            IF i = 0 THEN action
            ELSE IF DoesReplace(replacements[i], action)
                 THEN Replace(replacements[i], modifiedAction[i-1])
                 ELSE modifiedAction[i-1]
    IN  modifiedAction[Len(replacements)]

----------------------------------------------------------------------------
(* StateBasedActions *)

\* variant: damage has to exceed toughness
IsLethallyDamagedStrict(creature) == creature.damage > creature.toughness

IsLethallyDamaged(creature) == creature.damage >= creature.toughness

DestroyCreature(g, p, creature, index) ==
    LET g1 == [g EXCEPT !.card[creature].damage = 0,
                        !.graveyard[p] = Append(@, creature),
                        !.battlefield[p] = RemoveAt(@, index)]
    IN  RecordEvent(g1, "creature_dies")

LoseGame(g, p) == RecordEvent([g EXCEPT !.lost[p] = TRUE], "player_loses")

\* One backward scan of a battlefield (for i = length-1 .. 0), r = [g, changed]
RECURSIVE SBALethalScan(_, _, _)
SBALethalScan(r, p, i) ==
    IF i = 0 THEN r
    ELSE LET c == r.g.battlefield[p][i] IN
         IF TypeIncludes(r.g.card[c], "Creature") /\ IsLethallyDamaged(r.g.card[c])
         THEN SBALethalScan([g |-> DestroyCreature(r.g, p, c, i), changed |-> TRUE], p, i - 1)
         ELSE SBALethalScan(r, p, i - 1)

RECURSIVE SBATokenScan(_, _, _)
SBATokenScan(r, p, i) ==
    IF i = 0 THEN r
    ELSE LET c == r.g.battlefield[p][i] IN
         IF r.g.card[c].isToken /\ r.g.card[c].toughness <= 0
         THEN SBATokenScan([g |-> [r.g EXCEPT !.battlefield[p] = RemoveAt(@, i)],
                            changed |-> TRUE], p, i - 1)
         ELSE SBATokenScan(r, p, i - 1)

RECURSIVE SBAAuraScan(_, _, _)
SBAAuraScan(r, p, i) ==
    IF i = 0 THEN r
    ELSE LET c == r.g.battlefield[p][i] IN
         IF TypeIncludes(r.g.card[c], "Aura") /\ r.g.card[c].enchantmentTarget = NoCard
         THEN SBAAuraScan([g |-> [r.g EXCEPT !.graveyard[p] = Append(@, c),
                                             !.battlefield[p] = RemoveAt(@, i)],
                           changed |-> TRUE], p, i - 1)
         ELSE SBAAuraScan(r, p, i - 1)

\* performSBA: the four rules in order, each over game.players in order
PerformSBA(g) ==
    LET r0 == [g |-> g, changed |-> FALSE]
        L[k \in 0..Len(PlayerOrder)] ==
            IF k = 0 THEN r0
            ELSE SBALethalScan(L[k-1], PlayerOrder[k], Len(L[k-1].g.battlefield[PlayerOrder[k]]))
        D[k \in 0..Len(PlayerOrder)] ==
            IF k = 0 THEN L[Len(PlayerOrder)]
            ELSE IF D[k-1].g.life[PlayerOrder[k]] <= 0
                 THEN [g |-> LoseGame(D[k-1].g, PlayerOrder[k]), changed |-> TRUE]
            ELSE D[k-1]
        T[k \in 0..Len(PlayerOrder)] ==
            IF k = 0 THEN D[Len(PlayerOrder)]
            ELSE SBATokenScan(T[k-1], PlayerOrder[k], Len(T[k-1].g.battlefield[PlayerOrder[k]]))
        A[k \in 0..Len(PlayerOrder)] ==
            IF k = 0 THEN T[Len(PlayerOrder)]
            ELSE SBAAuraScan(A[k-1], PlayerOrder[k], Len(A[k-1].g.battlefield[PlayerOrder[k]]))
    IN  A[Len(PlayerOrder)]

----------------------------------------------------------------------------
(* Effect library (cardEffects.js) *)

Max(a, b) == IF a >= b THEN a ELSE b

\* String.prototype.toLowerCase, on the words of type lines and of search requests
ToLowerCase(w) ==
    CASE w = "Land"      -> "land"
      [] w = "Creature"  -> "creature"
      [] w = "Instant"   -> "instant"
      [] w = "Sorcery"   -> "sorcery"
      [] w = "Legendary" -> "legendary"
      [] w = "Artifact"  -> "artifact"
      [] w = "Aura"      -> "aura"
      [] OTHER           -> w

\* an effect descriptor: template, keyword and custom effects carry a name
Effect(type, name) == [type |-> type, name |-> name]

\* a source object, by the fields the templates read; an absent config is <<>>
NoConfig == <<>>

Source(power, damage, tokenConfig, searchConfig) ==
    [power |-> power, damage |-> damage, tokenConfig |-> tokenConfig,
     searchConfig |-> searchConfig]

NoSource == Source(0, 0, NoConfig, NoConfig)

\* a source that is a card object of the game
CardSource(id) ==
    [id |-> id, power |-> 0, damage |-> 0, tokenConfig |-> NoConfig, searchConfig |-> NoConfig]

\* a target: a player object of game.players, or a card object
PlayerTarget(p) == [kind |-> "player", ref |-> p]

CardTarget(id) == [kind |-> "card", ref |-> id]

\* target.type === word.  A card's type is its whole type line; the player
\* objects addPlayer builds have no type field.
TargetTypeIs(g, target, word) == target.kind = "card" /\ g.card[target.ref].type = {word}

\* the body of the for-loop of the damage template, for one target.  In the
\* first branch the target is a card whose type line is 'player' or
\* 'planeswalker': the life it is given is a field the engine never reads.
DamageTarget(g, damage, target) ==
    IF TargetTypeIs(g, target, "player") \/ TargetTypeIs(g, target, "planeswalker")
    THEN RecordEvent(g, "damage_dealt")
    ELSE IF TargetTypeIs(g, target, "creature")
    THEN RecordEvent([g EXCEPT !.card[target.ref].damage = @ + damage], "damage_dealt")
    ELSE g

\* createDamageEffect().apply
CreateDamageEffect(g, source, targets) ==
    LET damage == IF source.power # 0 THEN source.power ELSE source.damage
        F[i \in 0..Len(targets)] ==
            IF i = 0 THEN g ELSE DamageTarget(F[i-1], damage, targets[i])
    IN  [g |-> IF damage <= 0 THEN g ELSE F[Len(targets)], returned |-> TRUE]

\* variant: the loop of the token template runs once whatever the count
TokenCountOne(tokenConfig) == 1

\* tokenConfig.count || 1
TokenCount(tokenConfig) == IF tokenConfig.count = 0 THEN 1 ELSE tokenConfig.count

\* createTokenEffect().apply: tokenConfig.type || 'Creature', the token is pushed
\* on the controller's battlefield and token_created is recorded, count times
CreateTokenEffect(g, p, source) ==
    IF source.tokenConfig = NoConfig THEN [g |-> g, returned |-> TRUE]
    ELSE LET cfg == source.tokenConfig[1]
             F[i \in 0..TokenCount(cfg)] ==
                 IF i = 0 THEN g
                 ELSE LET id == TokenNames[F[i-1].tokensMade + 1]
                          token == [BlankCard EXCEPT
                                       !.type = IF cfg.type = {} THEN {"Creature"} ELSE cfg.type,
                                       !.power = cfg.power, !.toughness = cfg.toughness,
                                       !.isToken = TRUE]
                      IN  RecordEvent([F[i-1] EXCEPT !.card[id] = token,
                                                     !.battlefield[p] = Append(@, id),
                                                     !.tokensMade = @ + 1],
                                      "token_created")
         IN  [g |-> F[TokenCount(cfg)], returned |-> TRUE]

\* card.type?.toLowerCase().includes(type.toLowerCase())
SearchMatches(card, type) == ToLowerCase(type) \in {ToLowerCase(w) : w \in card.type}

\* variant: the search does not stop at maxCount results
SearchLibraryAll(g, library, type, maxCount) ==
    LET F[i \in 0..Len(library)] ==
            IF i = 0 THEN <<>>
            ELSE IF SearchMatches(g.card[library[i]], type) THEN Append(F[i-1], library[i])
            ELSE F[i-1]
    IN  F[Len(library)]

\* searchLibrary: the first maxCount matching cards, in library order
SearchLibrary(g, library, type, maxCount) ==
    LET F[i \in 0..Len(library)] ==
            IF i = 0 THEN <<>>
            ELSE IF Len(F[i-1]) >= maxCount THEN F[i-1]
            ELSE IF SearchMatches(g.card[library[i]], type) THEN Append(F[i-1], library[i])
            ELSE F[i-1]
    IN  F[Len(library)]

\* shuffleArray (Fisher-Yates, in place): rand stands for the draws of
\* Math.random, given as the order they produce
ShuffleArray(array, rand) ==
    LET InRange(k) == k <= Len(array)
        order == SelectSeq(rand, InRange)
    IN  [i \in 1..Len(array) |-> array[order[i]]]

\* createSearchEffect().apply
CreateSearchEffect(g, p, source, rand) ==
    IF source.searchConfig = NoConfig THEN [g |-> g, returned |-> TRUE]
    ELSE LET cfg == source.searchConfig[1]
             searchResults == SearchLibrary(g, g.library[p], cfg.type,
                                            IF cfg.maxCount = 0 THEN 1 ELSE cfg.maxCount)
             F[i \in 0..Len(searchResults)] ==
                 IF i = 0 THEN g
                 ELSE [F[i-1] EXCEPT !.hand[p] = Append(@, searchResults[i]),
                                     !.library[p] = Without(@, searchResults[i])]
             g1 == [F[Len(searchResults)] EXCEPT !.library[p] = ShuffleArray(@, rand)]
         IN  [g |-> RecordEvent(g1, "library_searched"), returned |-> TRUE]

\* the names initializeEffectTemplates registers
TemplateNames ==
    {"damage", "draw", "destroy", "bounce", "gain_life", "create_token", "search_library",
     "mill", "scry", "counter"}

\* applyTemplateEffect, for the templates in use here and for unregistered names
ApplyTemplateEffect(g, templateName, source, p, targets, rand) ==
    CASE templateName = "damage"         -> CreateDamageEffect(g, source, targets)
      [] templateName = "create_token"   -> CreateTokenEffect(g, p, source)
      [] templateName = "search_library" -> CreateSearchEffect(g, p, source, rand)
      [] templateName \notin TemplateNames -> [g |-> g, returned |-> FALSE]

\* the names initializeKeywords registers
KeywordNames ==
    {"flying", "trample", "haste", "vigilance", "deathtouch", "lifelink", "first_strike",
     "double_strike", "indestructible", "reach", "menace", "hexproof", "protection"}

\* KeywordAbilities.apply, for flying (source.canFly = true; a source that is
\* no card of the game leaves the game as it is) and for unregistered names
KeywordApply(g, keyword, source) ==
    CASE keyword = "flying" ->
            [g |-> IF "id" \in DOMAIN source
                   THEN [g EXCEPT !.card[source.id].canFly = TRUE]
                   ELSE g,
             returned |-> TRUE]
      [] keyword \notin KeywordNames  -> [g |-> g, returned |-> FALSE]

\* applySolRing: controller.manaPool.total += 2
ApplySolRing(g, p) == [g EXCEPT !.manaPool[p] = @ + 2]

\* the names applyCustomEffect switches on
CustomNames ==
    {"lightning_bolt", "brainstorm", "dark_ritual", "ancestral_recall", "time_walk",
     "black_lotus", "sol_ring"}

\* variant: the default branch of applyCustomEffect falls into the sol_ring case
ApplyCustomEffectFallThrough(g, name, p) == [g |-> ApplySolRing(g, p), returned |-> TRUE]

\* applyCustomEffect, for sol_ring and for names outside the switch
ApplyCustomEffect(g, name, p) ==
    CASE name = "sol_ring"         -> [g |-> ApplySolRing(g, p), returned |-> TRUE]
      [] name \notin CustomNames   -> [g |-> g, returned |-> FALSE]

\* the effect types applyEffect switches on
EffectTypes == {"template", "keyword", "triggered", "activated", "static", "custom"}

\* applyPowerToughnessModification: only targets whose type is exactly
\* 'creature' are touched; always returns true
ApplyPowerToughnessModification(g, staticAbility, targets) ==
    LET F[i \in 0..Len(targets)] ==
            IF i = 0 THEN g
            ELSE IF ~TargetTypeIs(F[i-1], targets[i], "creature") THEN F[i-1]
            ELSE IF staticAbility.modifier = "+1/+1"
                 THEN [F[i-1] EXCEPT !.card[targets[i].ref].power = @ + 1,
                                     !.card[targets[i].ref].toughness = @ + 1]
            ELSE IF staticAbility.modifier = "-1/-1"
                 THEN [F[i-1] EXCEPT !.card[targets[i].ref].power = Max(0, @ - 1),
                                     !.card[targets[i].ref].toughness = Max(0, @ - 1)]
            ELSE F[i-1]
    IN  [g |-> F[Len(targets)], returned |-> TRUE]

\* StaticAbilities.apply: the switch is on the type field of the ability it is
\* given.  The cost, prevention and protection appliers return true after
\* writing target fields (damagePrevention, protection, the manaCost of a target
\* object) that are not part of the modelled state.
StaticApply(g, staticAbility, targets) ==
    CASE staticAbility.type = "modify_power_toughness" ->
             ApplyPowerToughnessModification(g, staticAbility, targets)
      [] staticAbility.type \in {"modify_cost", "prevent_damage", "protection"} ->
             [g |-> g, returned |-> TRUE]
      [] OTHER -> [g |-> g, returned |-> FALSE]

RECURSIVE ApplyEffect(_, _, _, _, _, _)

\* ActivatedAbilities.apply: canPayCosts tests every cost of the list against the
\* controller as it is before anything is paid, payCosts then pays them one after
\* the other, and the ability's own effect, if it has one, is applied.  Costs of
\* type mana and life are modelled (tap, sacrifice and discard costs act on the
\* source card, the battlefield and the hand).
ActivatedApply(g, activatedAbility, source, p, targets, rand) ==
    LET costs == activatedAbility.costs
        CanPay(cost) ==
            CASE cost.type = "mana" -> ~(g.manaPool[p] < cost.amount)
              [] cost.type = "life" -> ~(g.life[p] < cost.amount)
              [] OTHER -> TRUE
        paid[i \in 0..Len(costs)] ==
            IF i = 0 THEN g
            ELSE CASE costs[i].type = "mana" ->
                          [paid[i-1] EXCEPT !.manaPool[p] = @ - costs[i].amount]
                   [] costs[i].type = "life" ->
                          [paid[i-1] EXCEPT !.life[p] = @ - costs[i].amount]
                   [] OTHER -> paid[i-1]
    IN  IF \E i \in 1..Len(costs) : ~CanPay(costs[i]) THEN [g |-> g, returned |-> FALSE]
        ELSE IF activatedAbility.effect # <<>>
             THEN ApplyEffect(paid[Len(costs)], activatedAbility.effect[1], source, p, targets,
                              rand)
        ELSE [g |-> paid[Len(costs)], returned |-> FALSE]

\* applyEffect: template, keyword, activated, static and custom effects, and the
\* default branch; the activated and static appliers are handed the effect itself;
\* none of these appliers raises, so the catch clause is not entered
ApplyEffect(g, effect, source, p, targets, rand) ==
    CASE effect.type = "template" -> ApplyTemplateEffect(g, effect.name, source, p, targets, rand)
      [] effect.type = "keyword"  -> KeywordApply(g, effect.name, source)
      [] effect.type = "custom"   -> ApplyCustomEffect(g, effect.name, p)
      [] effect.type = "static"   -> StaticApply(g, effect, targets)
      [] effect.type = "activated" -> ActivatedApply(g, effect, source, p, targets, rand)
      [] effect.type \notin EffectTypes -> [g |-> g, returned |-> FALSE]

----------------------------------------------------------------------------
(* The state machine *)


Phases == {"begin", "main1", "combat"}

NoOutcome == [kind |-> "none", nested |-> FALSE]

\* Game.constructor, RulesEngine.constructor and the two addPlayer calls of
\* createGame, on decks of a few cards: the commander (or library[0]) is put in
\* the command zone without being taken out of the library.
InitGame ==
    [hand |-> (1 :> <<"Forest", "Cobra", "Bolt", "Arbor", "Ambush", "Drake">>
               @@ 2 :> <<"Wastes", "Wall">>),
     library |-> (1 :> <<"Elf", "Grove", "Bear">> @@ 2 :> <<"Relic">>),
     battlefield |-> [p \in Players |-> <<>>],
     graveyard |-> [p \in Players |-> <<>>],
     commandZone |-> (1 :> <<"Elf">> @@ 2 :> <<"Relic">>),
     life |-> [p \in Players |-> StartingLife],
     lost |-> [p \in Players |-> FALSE],
     landsPlayedThisTurn |-> [p \in Players |-> 0],
     commanderTaxCount |-> [p \in Players |-> 0],
     manaPool |-> [p \in Players |-> 0],
     card |-> [c \in Ids |-> CardDef(c)],
     phase |-> "begin",
     combatStep |-> "none",
     currentAttacker |-> NoPlayer,
     currentDefender |-> NoPlayer,
     attackingCreatures |-> <<>>,
     blockingAssignments |-> <<>>,
     stack |-> <<>>,
     pendingTriggers |-> <<>>,
     triggeredEvents |-> <<>>,
     replacements |-> <<>>,
     activePlayerIndex |-> 1,
     tokensMade |-> 0]

\* TrainingSystem.constructor: no run has been started
InitTraining == [isTraining |-> FALSE, currentGeneration |-> 0, runs |-> <<>>]

Init ==
    /\ game = InitGame
    /\ callDepth = 0
    /\ pc = "idle"
    /\ scanIdx = 1
    /\ outcome = NoOutcome
    /\ pre = <<>>
    /\ lastCall = <<>>
    /\ sbaPasses = 0
    /\ sbaBudget = 0
    /\ asked = <<>>
    /\ post = "none"
    /\ applied = <<>>
    /\ dealt = {}
    /\ training = InitTraining

\* the cards of a player's deck that the requests of that player name
CardsOf(p) == IF p = 1 THEN {"Forest", "Cobra", "Bolt", "Arbor", "Elf"} ELSE {"Wastes", "Relic"}

\* the actions a client or a decision provider submits for player p, by kind
LandActions(p) == {PlayLand(c) : c \in CardsOf(p)}

CastActions(p) == {Cast(c, z) : c \in CardsOf(p), z \in BOOLEAN}

\* a player whose life is gone activates nothing more, which keeps life totals bounded
AbilityActions(g, p) == IF g.life[p] > 0 THEN {Activate(c, "pain") : c \in CardsOf(p)} ELSE {}

CombatActions == {Attack(<<>>), Block(<<>>)}

\* getPlayerAction for a human player: null
HumanDecision == Null

\* the permanents and players the state-based rules can still act on
SBAMeasure(g) ==
    Len(g.battlefield[1]) + Len(g.battlefield[2]) + Cardinality({p \in Players : ~g.lost[p]})

\* control flow of StateBasedActions.check: while (changed) changed = performSBA()
PcAfterSBA(changed) == IF changed THEN "sba" ELSE "triggers"

\* control flow of the for-loop of handlePriority after a player passed
\* variant: the scan ends after the first player who passes
PcAfterPassFirst(idx) == "resolve"

PcAfterPass(idx) == IF idx + 1 > Len(PlayerOrder) THEN "resolve" ELSE "ask"

\* An exception leaves every processAction frame: nothing in the engine catches it
Raise(kind, nested) ==
    /\ UNCHANGED training
    /\ callDepth' = 0
    /\ pc' = "idle"
    /\ outcome' = [kind |-> kind, nested |-> nested]
    /\ pre' = <<>>
    /\ asked' = <<>>
    /\ post' = "none"
    /\ sbaPasses' = 0
    /\ sbaBudget' = 0
    /\ scanIdx' = 1

\* processAction(player, action) up to executeAction; g is the game it starts from
Dispatch(g, p, action, nested) ==
    /\ UNCHANGED training
    /\ lastCall' = <<[player |-> p, action |-> action]>>
    /\ applied' = <<>>
    /\ dealt' = dealt
    /\ IF ~IsActionLegal(g, p, action)
       THEN /\ game' = game
            /\ Raise("illegal", nested)
       ELSE LET r == ExecuteAction(g, p, ReplacementsApply(g.replacements, action)) IN
            /\ game' = r.g
            /\ IF r.threw # "none"
               THEN Raise(r.threw, nested)
               ELSE /\ callDepth' = callDepth + 1
                    /\ pc' = "sba"
                    /\ outcome' = NoOutcome
                    /\ pre' = IF nested THEN pre ELSE <<game>>
                    /\ asked' = <<>>
                    /\ post' = "none"
                    /\ sbaPasses' = 0
                    /\ sbaBudget' = SBAMeasure(r.g)
                    /\ scanIdx' = 1

\* A call of processAction by the host.  The event log kept is the part recorded
\* since the call began: the engine appends to the log and never reads it.
ProcessAction(p, action) ==
    /\ pc = "idle"
    /\ Dispatch([game EXCEPT !.triggeredEvents = <<>>], p, action, FALSE)

\* One pass of StateBasedActions.check
SBAStep ==
    /\ UNCHANGED training
    /\ pc = "sba"
    /\ sbaPasses < MaxSBAPasses
    /\ LET r == PerformSBA(game) IN
       /\ game' = r.g
       /\ pc' = PcAfterSBA(r.changed)
       /\ sbaPasses' = IF r.changed THEN sbaPasses + 1 ELSE sbaPasses
       /\ post' = IF ~r.changed /\ post = "resolved" THEN "sba" ELSE post
    /\ lastCall' = <<>>
    /\ applied' = <<>>
    /\ dealt' = dealt
    /\ UNCHANGED <<callDepth, scanIdx, outcome, pre, sbaBudget, asked>>

\* TriggeredAbilities.check
TriggerStep ==
    /\ UNCHANGED training
    /\ pc = "triggers"
    /\ game' = TriggersCheck(game)
    /\ pc' = "priority"
    /\ post' = IF post = "sba" THEN "triggers" ELSE post
    /\ lastCall' = <<>>
    /\ applied' = <<>>
    /\ dealt' = {}
    /\ sbaPasses' = 0
    /\ sbaBudget' = 0
    /\ UNCHANGED <<callDepth, scanIdx, outcome, pre, asked>>

\* handlePriority: the while-condition is false, the call returns true; a caller
\* inside the priority loop goes on with allPassed = false and break
Return ==
    /\ UNCHANGED training
    /\ pc = "priority"
    /\ StackIsEmpty(game.stack)
    /\ callDepth' = callDepth - 1
    /\ IF callDepth = 1
       THEN /\ pc' = "idle"
            /\ outcome' = [kind |-> "returned", nested |-> FALSE]
            /\ pre' = <<>>
       ELSE /\ pc' = "priority"
            /\ UNCHANGED <<outcome, pre>>
    /\ asked' = <<>>
    /\ post' = "none"
    /\ lastCall' = <<>>
    /\ applied' = <<>>
    /\ dealt' = dealt
    /\ UNCHANGED <<game, scanIdx, sbaPasses, sbaBudget>>

\* handlePriority: the while-condition is true, a scan of the players begins
BeginScan ==
    /\ UNCHANGED training
    /\ pc = "priority"
    /\ ~StackIsEmpty(game.stack)
    /\ pc' = "ask"
    /\ scanIdx' = 1
    /\ asked' = <<>>
    /\ lastCall' = <<>>
    /\ applied' = <<>>
    /\ dealt' = dealt
    /\ UNCHANGED <<game, callDepth, outcome, pre, sbaPasses, sbaBudget, post>>

\* handlePriority: the player is skipped as lost, or is asked and answers null or pass
AskPass(d) ==
    /\ UNCHANGED training
    /\ pc = "ask"
    /\ LET p == PlayerOrder[scanIdx] IN
       /\ IsHuman(p) <=> d = HumanDecision
       /\ game.lost[p] \/ d.type \in {"null", "pass"}
       /\ asked' = IF game.lost[p] THEN asked
                   ELSE Append(asked, [player |-> p, answer |-> d.type])
    /\ pc' = PcAfterPass(scanIdx)
    /\ scanIdx' = scanIdx + 1
    /\ lastCall' = <<>>
    /\ applied' = <<>>
    /\ dealt' = dealt
    /\ UNCHANGED <<game, callDepth, outcome, pre, sbaPasses, sbaBudget, post>>

\* handlePriority: the player answers with an action, processed by a nested processAction
AskAct(d) ==
    /\ UNCHANGED training
    /\ pc = "ask"
    /\ LET p == PlayerOrder[scanIdx] IN
       /\ IsHuman(p) <=> d = HumanDecision
       /\ ~game.lost[p]
       /\ d.type \notin {"null", "pass"}
       /\ Dispatch(game, p, d, TRUE)

\* handlePriority: every player passed, stack.resolve()
ResolveStep ==
    /\ UNCHANGED training
    /\ pc = "resolve"
    /\ LET r == StackResolve(game) IN
       /\ game' = r.g
       /\ IF r.threw # "none"
          THEN Raise(r.threw, TRUE)
          ELSE /\ pc' = "sba"
               /\ post' = "resolved"
               /\ sbaPasses' = 0
               /\ sbaBudget' = SBAMeasure(r.g)
               /\ UNCHANGED <<callDepth, scanIdx, outcome, pre, asked>>
    /\ lastCall' = <<>>
    /\ applied' = <<>>
    /\ dealt' = dealt

\* The host moves the game to another phase (turn progression is the host's)
SetPhase(ph) ==
    /\ UNCHANGED training
    /\ pc = "idle"
    /\ ph # game.phase
    /\ game' = [game EXCEPT !.phase = ph,
                            !.combatStep = IF ph = "combat" THEN "declare_attackers" ELSE "none"]
    /\ outcome' = NoOutcome
    /\ lastCall' = <<>>
    /\ applied' = <<>>
    /\ dealt' = dealt
    /\ UNCHANGED <<callDepth, pc, scanIdx, pre, sbaPasses, sbaBudget, asked, post>>

\* The host gives the turn to the next player: game.activePlayerIndex, counted
\* from 1 here, is the index that handlePriority and shouldBotAct read
PassTurn ==
    /\ UNCHANGED training
    /\ pc = "idle"
    /\ callDepth = 0
    /\ game' = [game EXCEPT !.activePlayerIndex = (@ % Len(PlayerOrder)) + 1]
    /\ outcome' = NoOutcome
    /\ lastCall' = <<>>
    /\ applied' = <<>>
    /\ UNCHANGED <<callDepth, pc, scanIdx, pre, sbaPasses, sbaBudget, asked, post, dealt>>

\* player.lost = true, written on the player object outside a state-based check
\* (loseGame is the one writer in the engine, and check() does not return after it)
Concede(p) ==
    /\ UNCHANGED training
    /\ pc = "idle"
    /\ callDepth = 0
    /\ ~game.lost[p]
    /\ game' = [game EXCEPT !.lost[p] = TRUE]
    /\ outcome' = NoOutcome
    /\ lastCall' = <<>>
    /\ applied' = <<>>
    /\ UNCHANGED <<callDepth, pc, scanIdx, pre, sbaPasses, sbaBudget, asked, post, dealt>>

\* a call of applyEffect, by its arguments
EffectCall(effect, source, p, targets) ==
    [effect |-> effect, source |-> source, controller |-> p, targets |-> targets]

\* whether a target would be killed by d damage: a player brought to 0 life or
\* less, a Creature permanent whose damage would reach its toughness
IsLethalFor(g, d, target) ==
    IF target.kind = "player" THEN g.life[target.ref] - d <= 0
    ELSE /\ \E p \in Players : InZone(g.battlefield[p], target.ref)
         /\ TypeIncludes(g.card[target.ref], "Creature")
         /\ g.card[target.ref].damage + d >= g.card[target.ref].toughness

\* the orders a shuffle of a library can produce
Rands ==
    LET n == Len(InitGame.library[1])
    IN  {s \in [1..n -> 1..n] : \A i, j \in 1..n : s[i] = s[j] => i = j}

\* the order of a call that shuffles nothing
NoShuffle == [i \in 1..Len(InitGame.library[1]) |-> i]

\* A call of applyEffect by the host, between two processAction calls
ApplyEffectCall(call, rand) ==
    /\ UNCHANGED training
    /\ pc = "idle"
    /\ LET r == ApplyEffect([game EXCEPT !.triggeredEvents = <<>>], call.effect, call.source,
                            call.controller, call.targets, rand)
       IN  /\ game' = r.g
           /\ applied' = <<[call |-> call, returned |-> r.returned]>>
    /\ dealt' = IF /\ call.effect = Effect("template", "damage")
                   /\ \E t \in Range(call.targets) : IsLethalFor(game, call.source.power, t)
                THEN {t \in Range(call.targets) : IsLethalFor(game, call.source.power, t)}
                ELSE dealt
    /\ outcome' = NoOutcome
    /\ lastCall' = <<>>
    /\ UNCHANGED <<callDepth, pc, scanIdx, pre, sbaPasses, sbaBudget, asked, post>>

\* stack.push({type: 'spell', card, controller, targets}) by a caller that has
\* taken the card out of its owner's hand, as executeCastSpell does before its push
PushSpell(p, cardId, targets) ==
    /\ UNCHANGED training
    /\ pc = "idle"
    /\ callDepth = 0
    /\ InZone(game.hand[p], cardId)
    /\ game' = [game EXCEPT !.hand[p] = SpliceIndexOf(@, cardId),
                            !.stack = StackPush(@, [type |-> "spell", card |-> cardId,
                                                    controller |-> p, trigger |-> "none",
                                                    targets |-> targets])]
    /\ outcome' = NoOutcome
    /\ lastCall' = <<>>
    /\ applied' = <<>>
    /\ UNCHANGED <<callDepth, pc, scanIdx, pre, sbaPasses, sbaBudget, asked, post, dealt>>

\* An Aura on the battlefield is attached to a permanent: whoever puts the Aura
\* there sets the enchantmentTarget field that rule 4 of performSBA reads
Attach(aura, target) ==
    /\ UNCHANGED training
    /\ pc = "idle"
    /\ callDepth = 0
    /\ aura # target
    /\ \E p \in Players : InZone(game.battlefield[p], aura)
    /\ \E p \in Players : InZone(game.battlefield[p], target)
    /\ TypeIncludes(game.card[aura], "Aura")
    /\ game.card[aura].enchantmentTarget = NoCard
    /\ game' = [game EXCEPT !.card[aura].enchantmentTarget = target]
    /\ outcome' = NoOutcome
    /\ lastCall' = <<>>
    /\ applied' = <<>>
    /\ UNCHANGED <<callDepth, pc, scanIdx, pre, sbaPasses, sbaBudget, asked, post, dealt>>

\* replacementEffects.replacements.push(rule): a rule is registered
RegisterReplacement(rule) ==
    /\ UNCHANGED training
    /\ pc = "idle"
    /\ callDepth = 0
    /\ Len(game.replacements) < MaxReplacements
    /\ game' = [game EXCEPT !.replacements = Append(@, rule)]
    /\ lastCall' = <<>>
    /\ applied' = <<>>
    /\ UNCHANGED <<callDepth, pc, scanIdx, outcome, pre, sbaPasses, sbaBudget, asked, post, dealt>>

\* replacementEffects.apply(action), called between two requests
ApplyReplacements(action) ==
    /\ UNCHANGED training
    /\ pc = "idle"
    /\ callDepth = 0
    /\ applied' = <<[call |-> action, returned |-> ReplacementsApply(game.replacements, action)]>>
    /\ lastCall' = <<>>
    /\ UNCHANGED <<game, callDepth, pc, scanIdx, outcome, pre, sbaPasses, sbaBudget, asked, post,
                   dealt>>

\* applyEffect({type: 'custom', name: 'sol_ring'}) for controller p
AddMana(p) ==
    /\ game.manaPool[p] + 2 <= MaxMana
    /\ ApplyEffectCall(EffectCall(Effect("custom", "sol_ring"), NoSource, p, <<>>), NoShuffle)

----------------------------------------------------------------------------
(* Specifications.  Each one lets the host and the decision provider draw   *)
(* their requests from one part of the action vocabulary.                   *)

\* lands, abilities, combat declarations, passes and malformed requests
TurnInputs(g, p) ==
    {Pass, Typeless} \cup LandActions(p) \cup AbilityActions(g, p) \cup CombatActions

Next ==
    \/ \E p \in Players : \E a \in TurnInputs(game, p) : ProcessAction(p, a)
    \/ SBAStep
    \/ TriggerStep
    \/ Return
    \/ BeginScan
    \/ \E d \in {HumanDecision} \cup TurnInputs(game, 2) : AskPass(d)
    \/ \E d \in {HumanDecision} \cup TurnInputs(game, 2) : AskAct(d)
    \/ ResolveStep
    \/ \E ph \in Phases : SetPhase(ph)

Spec == Init /\ [][Next]_vars

\* spells from hand and command zone, with mana from the effect library
CastInputs(p) ==
    {Pass} \cup CastActions(p) \cup (IF p = 1 THEN {Cast("Ambush", FALSE)} ELSE {})

NextCast ==
    \/ \E p \in Players : \E a \in CastInputs(p) : ProcessAction(p, a)
    \/ SBAStep
    \/ TriggerStep
    \/ Return
    \/ \E ph \in Phases : SetPhase(ph)
    \/ \E p \in Players : AddMana(p)

SpecCast == Init /\ [][NextCast]_vars

\* land creatures, attack and block declarations, a tap ability, passes and
\* malformed requests
CombatInputs(p) ==
    {Pass, Typeless, Block(<<>>)}
        \cup (IF p = 1
              THEN {PlayLand("Drake"), Attack(<<"Drake">>), Attack(<<>>), Block(<<"Drake">>)}
              ELSE {PlayLand("Wall"), PlayLand("Wastes"), Activate("Wastes", "tap"),
                    Block(<<"Wall">>), Attack(<<"Wall">>),
                    Attack(<<"Wall", PlayerId(1)>>), Attack(<<PlayerId(1), "Wall">>)})

NextCombat ==
    \/ \E p \in Players : \E a \in CombatInputs(p) : ProcessAction(p, a)
    \/ SBAStep
    \/ TriggerStep
    \/ Return
    \/ BeginScan
    \/ \E d \in {HumanDecision, Pass} : AskPass(d)
    \/ \E d \in {HumanDecision, Typeless} : AskAct(d)
    \/ ResolveStep
    \/ \E ph \in Phases : SetPhase(ph)

SpecCombat == Init /\ [][NextCombat]_vars

\* the inputs of the effect library
TokenToughness == {0, 1}

TokenInputs == {Pass, Typeless}

DamageAmounts == {1, StartingLife}

SearchTypes == {"creature", "Land", "wizard"}

\* the permanents on the battlefields and the players, as targets
Targets(g) ==
    {PlayerTarget(p) : p \in Players}
        \cup {CardTarget(id) : id \in UNION {Range(g.battlefield[p]) : p \in Players}}

DamageCalls(g) ==
    {EffectCall(Effect("template", "damage"), Source(d, 0, NoConfig, NoConfig), 1, <<t>>) :
        d \in DamageAmounts, t \in Targets(g)}

TokenCalls(g) ==
    {EffectCall(Effect("template", "create_token"),
                Source(0, 0, <<[count |-> n, type |-> {}, power |-> 1, toughness |-> t]>>, NoConfig),
                p, <<>>) :
        p \in Players, t \in TokenToughness, n \in 1..(MaxTokens - g.tokensMade)}

SearchCalls ==
    {EffectCall(Effect("template", "search_library"),
                Source(0, 0, NoConfig, <<[type |-> ty, maxCount |-> 1]>>), p, <<>>) :
        p \in Players, ty \in SearchTypes}

UnknownEffects ==
    {Effect("mystery", "none"), Effect("template", "regenerate"),
     Effect("keyword", "banding"), Effect("custom", "mox_pearl")}

UnknownCalls == {EffectCall(e, NoSource, p, <<>>) : p \in Players, e \in UnknownEffects}

\* tokens and damage from the effect library, with passes and malformed requests
NextTokens ==
    \/ \E p \in Players : \E a \in TokenInputs : ProcessAction(p, a)
    \/ SBAStep
    \/ TriggerStep
    \/ Return
    \/ BeginScan
    \/ \E d \in {HumanDecision} \cup TokenInputs : AskPass(d)
    \/ \E d \in {HumanDecision} \cup TokenInputs : AskAct(d)
    \/ ResolveStep
    \/ \E call \in DamageCalls(game) \cup TokenCalls(game) : ApplyEffectCall(call, NoShuffle)

SpecTokens == Init /\ [][NextTokens]_vars

\* library searches and unknown effects from the effect library, with passes
NextSearch ==
    \/ \E p \in Players : ProcessAction(p, Pass)
    \/ SBAStep
    \/ TriggerStep
    \/ Return
    \/ \E call \in SearchCalls, rand \in Rands : ApplyEffectCall(call, rand)
    \/ \E call \in UnknownCalls : ApplyEffectCall(call, NoShuffle)
    \/ \E p \in Players, modifier \in {"+1/+1", "-1/-1"}, id \in {"Cobra", "Forest"} :
          ApplyEffectCall(EffectCall([type |-> "static", name |-> "modify_power_toughness",
                                      modifier |-> modifier],
                                     NoSource, p, <<CardTarget(id)>>), NoShuffle)
    \/ \E id \in {"Cobra", "Drake"} :
          ApplyEffectCall(EffectCall(Effect("keyword", "flying"), CardSource(id), 1, <<>>),
                          NoShuffle)

SpecSearch == Init /\ [][NextSearch]_vars

----------------------------------------------------------------------------
(* Properties *)

\* the game without its event log
Observable(g) == [g EXCEPT !.triggeredEvents = <<>>]

\* the game as it was before the call that is in progress or is being made
Before == IF pre = <<>> THEN game ELSE pre[1]

IsPrefix(s, t) == Len(s) <= Len(t) /\ SubSeq(t, 1, Len(s)) = s

Front(s) == SubSeq(s, 1, Len(s) - 1)

\* the players a scan of handlePriority asks: game.players without the lost ones
NonLostOrder(g) == SelectSeq(PlayerOrder, LAMBDA p : ~g.lost[p])

\* C1: StateBasedActions.check() terminates.  A pass that reports a change has
\* destroyed or removed a permanent or has put a player out of the game, so a
\* check() that terminates makes no more changing passes than there were
\* permanents on battlefields and players still in the game when it began.
C1_CheckEndsWithinItsMeasure == sbaPasses <= sbaBudget

\* C2: whenever StateBasedActions.check() has returned (the call stands just
\* before TriggeredAbilities.check), no battlefield holds a Creature card whose
\* damage is at least its toughness.
C2_NoLethalCreatureAfterCheck ==
    pc = "triggers" =>
        \A p \in Players : \A i \in 1..Len(game.battlefield[p]) :
            LET c == game.card[game.battlefield[p][i]]
            IN  "Creature" \in c.type => c.damage < c.toughness

\* a check() has just returned after destroying the Land Creature played
C2_Witness ==
    /\ pc = "triggers"
    /\ InZone(game.graveyard[1], "Arbor")
    /\ "creature_dies" \in Range(game.triggeredEvents)

\* C3: the stack is last-in-first-out: a resolution takes away the item pushed
\* most recently among those still on the stack, and every other step leaves
\* the items already on the stack in place below whatever it pushes.
C3_StackIsLIFO ==
    [][IF pc = "resolve"
       THEN game'.stack = Front(game.stack)
       ELSE IsPrefix(game.stack, game'.stack)]_vars

\* two different triggers were pushed, Forest's first; the later one has been resolved
C3_Witness ==
    /\ post = "resolved"
    /\ Len(game.stack) = 1
    /\ game.stack[1].card = "Forest"

\* C4: whenever a processAction call ends by raising the illegal-action
\* rejection, the game is as it was before that call, also when the rejected
\* action is one a decision provider returned inside the priority loop.
C4_RejectionLeavesGameUntouched ==
    [][(outcome'.kind = "illegal" /\ lastCall' # <<>>)
          => Observable(game') = Observable(Before)]_vars

\* C5: whenever a processAction call returns normally, the stack is empty.
C5_NormalReturnLeavesStackEmpty ==
    [][(callDepth' < callDepth /\ outcome'.kind \in {"none", "returned"})
          => game'.stack = <<>>]_vars

\* a call that played a land, and so put triggers on the stack, has returned
C5_Witness ==
    /\ outcome.kind = "returned"
    /\ "land_played" \in Range(game.triggeredEvents)
    /\ game.stack = <<>>

\* C6: when the priority loop has asked a human player for an action, the call
\* resolves nothing: the stack is left as it is for a later processAction.
C6_NoResolutionOnceHumanAsked ==
    pc = "resolve" => \A i \in 1..Len(asked) : ~IsHuman(asked[i].player)

\* C7: an item leaves the stack only by a resolution that follows one full scan
\* in which every player still in the game was asked and answered null or pass;
\* that resolution takes exactly the top item; and after it no player is asked
\* again before the state-based check and then the trigger check have run.
C7_ResolveOnlyAfterFullPassedScan ==
    [][/\ pc = "resolve" =>
             /\ [i \in 1..Len(asked) |-> asked[i].player] = NonLostOrder(game)
             /\ \A i \in 1..Len(asked) : asked[i].answer \in {"null", "pass"}
             /\ game'.stack = Front(game.stack)
       /\ Len(game'.stack) < Len(game.stack) => pc = "resolve"
       /\ pc' = "ask" => post' \in {"none", "triggers"}]_vars

\* after a resolution, the two checks have run and a player is about to be asked again
C7_Witness == pc = "ask" /\ post = "triggers"

\* C8: after a legal cast has been executed, the card is no longer in the zone
\* it was cast from, a spell item with that card and its caster is on the stack,
\* and a spell_cast event is recorded.
C8_CastPutsSpellOnStack ==
    (lastCall # <<>> /\ lastCall[1].action.type = "cast" /\ outcome.kind # "illegal") =>
        LET p == lastCall[1].player
            a == lastCall[1].action
            zone == IF a.fromCommandZone THEN game.commandZone[p] ELSE game.hand[p]
        IN  /\ ~InZone(zone, a.cardId)
            /\ \E i \in 1..Len(game.stack) :
                   /\ game.stack[i].type = "spell"
                   /\ game.stack[i].card = a.cardId
                   /\ game.stack[i].controller = p
            /\ "spell_cast" \in Range(game.triggeredEvents)

\* C9: a cast of a card in the caster's hand whose mana cost exceeds the caster's
\* mana pool total is rejected as illegal and changes nothing, in every phase
\* and for every card type.
C9_CastWithoutManaRejected ==
    [][\A p \in Players : \A c \in CardNames :
          (/\ InZone(game.hand[p], c)
           /\ game.manaPool[p] < game.card[c].manaCost
           /\ lastCall' = <<[player |-> p, action |-> Cast(c, FALSE)]>>)
             => (outcome'.kind = "illegal" /\ game' = game)]_vars

\* an Instant in hand, cast at a time its type allows with one mana short, was rejected
C9_Witness ==
    /\ lastCall = <<[player |-> 1, action |-> Cast("Bolt", FALSE)]>>
    /\ outcome.kind = "illegal"
    /\ InZone(game.hand[1], "Bolt")
    /\ game.manaPool[1] = 1
    /\ game.card["Bolt"].manaCost = 2

\* C10: a legal cast lowers the caster's mana pool total by exactly the cost
\* getManaCost gives and leaves every other player's pool as it was.
C10_CastPaysExactlyItsCost ==
    [][\A p \in Players : \A c \in CardNames : \A z \in BOOLEAN :
          (lastCall' = <<[player |-> p, action |-> Cast(c, z)]>> /\ outcome'.kind # "illegal")
             => game'.manaPool = [game.manaPool EXCEPT ![p] = @ - GetManaCost(game, c, z)]]_vars

\* a one-mana spell was cast from a pool of two while the other player held mana
C10_Witness ==
    /\ lastCall = <<[player |-> 1, action |-> Cast("Cobra", FALSE)]>>
    /\ outcome.kind # "illegal"
    /\ game.manaPool[1] = 1
    /\ game.manaPool[2] = 2

\* C11: a cast of a commander from the command zone is charged its base cost
\* plus twice the caster's commanderTaxCount, and raises that count by one.
C11_CommanderCastRaisesTax ==
    [][\A p \in Players : \A c \in CardNames :
          (/\ lastCall' = <<[player |-> p, action |-> Cast(c, TRUE)]>>
           /\ outcome'.kind # "illegal"
           /\ game.card[c].isCommander)
             => /\ game'.manaPool[p] = game.manaPool[p]
                       - (game.card[c].manaCost + 2 * game.commanderTaxCount[p])
                /\ game'.commanderTaxCount[p] = game.commanderTaxCount[p] + 1]_vars

\* C12: a play-land by a player whose landsPlayedThisTurn is 1 or more is
\* rejected and changes nothing, whatever the phase, the hand and the stack;
\* and no step takes a player's landsPlayedThisTurn above 1.
C12_SecondLandRejected ==
    [][\A p \in Players :
          /\ game'.landsPlayedThisTurn[p] <= 1
          /\ \A c \in CardNames :
                (/\ game.landsPlayedThisTurn[p] >= 1
                 /\ lastCall' = <<[player |-> p, action |-> PlayLand(c)]>>)
                   => (outcome'.kind = "illegal" /\ game' = game)]_vars

\* a land in hand, played in a main phase on an empty stack after another land, was rejected
C12_Witness ==
    /\ lastCall = <<[player |-> 1, action |-> PlayLand("Arbor")]>>
    /\ outcome.kind = "illegal"
    /\ game.landsPlayedThisTurn[1] = 1
    /\ InZone(game.hand[1], "Arbor")
    /\ game.phase = "main1"
    /\ game.stack = <<>>

\* how many times id occurs in the array zone
Occurrences(zone, id) == Cardinality({i \in 1..Len(zone) : zone[i] = id})

\* how many times id occurs in the zone arrays of all players
ZoneCount(g, id) ==
    LET N[k \in 0..Len(PlayerOrder)] ==
            IF k = 0 THEN 0
            ELSE LET p == PlayerOrder[k]
                 IN  N[k-1] + Occurrences(g.hand[p], id) + Occurrences(g.library[p], id)
                            + Occurrences(g.battlefield[p], id) + Occurrences(g.graveyard[p], id)
                            + Occurrences(g.commandZone[p], id)
    IN  N[Len(PlayerOrder)]

\* C13: in every state reachable from game creation no card is in more than one
\* zone array (hand, library, battlefield, graveyard, command zone) over all
\* players, and no card is twice in one zone.
C13_CardInAtMostOneZone == \A id \in Ids : ZoneCount(game, id) <= 1

\* how many stack items carry the card id
StackCount(g, id) == Cardinality({i \in 1..Len(g.stack) : g.stack[i].card = id})

\* C14: no non-token card disappears: over any step of processAction (returning
\* or raising) and any stack resolution, a non-token card that was in some zone
\* or in some stack item is still in some zone or in some stack item.
C14_NoCardDisappears ==
    [][\A c \in CardNames :
          ZoneCount(game, c) + StackCount(game, c) >= 1
              => ZoneCount(game', c) + StackCount(game', c) >= 1]_vars

\* C15: when the damage template was applied to a Creature permanent on a
\* battlefield with accumulated damage + d >= toughness, the next state-based
\* check, once completed, has moved that creature to a graveyard and recorded a
\* creature_dies event.
C15_LethalDamageKillsCreature ==
    pc = "triggers" =>
        \A t \in dealt :
            t.kind = "card" =>
                /\ \A p \in Players : ~InZone(game.battlefield[p], t.ref)
                /\ \E p \in Players : InZone(game.graveyard[p], t.ref)
                /\ "creature_dies" \in Range(game.triggeredEvents)

\* C16: when the damage template was applied to a player of the game with
\* life - d <= 0, the next state-based check has set that player's lost flag
\* and recorded a player_loses event.
C16_LethalDamageLosesGame ==
    pc = "triggers" =>
        \A t \in dealt :
            t.kind = "player" =>
                /\ game.lost[t.ref]
                /\ "player_loses" \in Range(game.triggeredEvents)

\* C17: a token with toughness <= 0 (Creature tokens of create_token included)
\* is, once the next state-based check has completed, on no battlefield and in
\* no graveyard.
C17_DeadTokenLeavesNoTrace ==
    pc = "triggers" =>
        \A id \in TokenIds :
            (game.card[id].isToken /\ game.card[id].toughness <= 0) =>
                \A p \in Players : /\ ~InZone(game.battlefield[p], id)
                                   /\ ~InZone(game.graveyard[p], id)

\* C18: applying the create_token template with count n >= 1 appends exactly n
\* new permanents with isToken = true to the controller's battlefield and
\* changes no other zone of any player.
C18_TokensAddedToBattlefield ==
    [][(/\ applied' # <<>>
        /\ applied'[1].call.effect = Effect("template", "create_token")
        /\ applied'[1].call.source.tokenConfig # NoConfig
        /\ applied'[1].call.source.tokenConfig[1].count >= 1)
          => LET p == applied'[1].call.controller
                 n == applied'[1].call.source.tokenConfig[1].count
                 old == Len(game.battlefield[p])
             IN  /\ Len(game'.battlefield[p]) = old + n
                 /\ SubSeq(game'.battlefield[p], 1, old) = game.battlefield[p]
                 /\ \A i \in (old + 1)..(old + n) :
                       /\ game'.card[game'.battlefield[p][i]].isToken
                       /\ ZoneCount(game, game'.battlefield[p][i]) = 0
                       /\ ZoneCount(game', game'.battlefield[p][i]) = 1
                 /\ \A q \in Players :
                       /\ q # p => game'.battlefield[q] = game.battlefield[q]
                       /\ game'.hand[q] = game.hand[q]
                       /\ game'.library[q] = game.library[q]
                       /\ game'.graveyard[q] = game.graveyard[q]
                       /\ game'.commandZone[q] = game.commandZone[q]]_vars

C18_Witness ==
    /\ applied # <<>>
    /\ applied[1].call.effect = Effect("template", "create_token")
    /\ applied[1].call.controller = 1
    /\ applied[1].call.source.tokenConfig[1].count = 2
    /\ Len(game.battlefield[1]) = 2
    /\ \A i \in 1..2 : game.card[game.battlefield[1][i]].isToken

\* s and t hold the same cards, each the same number of times
IsPermutation(s, t) ==
    /\ Len(s) = Len(t)
    /\ \A x \in Range(s) \cup Range(t) : Occurrences(s, x) = Occurrences(t, x)

\* C19: applying search_library with maxCount = 1 when the controller's library
\* holds a card of the searched type moves exactly one matching card from the
\* library to the hand; the library afterwards is a permutation of the
\* remaining cards and no other zone changes.
C19_SearchMovesOneCard ==
    [][(/\ applied' # <<>>
        /\ applied'[1].call.effect = Effect("template", "search_library")
        /\ applied'[1].call.source.searchConfig # NoConfig
        /\ applied'[1].call.source.searchConfig[1].maxCount = 1
        /\ \E c \in Range(game.library[applied'[1].call.controller]) :
              SearchMatches(game.card[c], applied'[1].call.source.searchConfig[1].type))
          => LET p == applied'[1].call.controller
                 type == applied'[1].call.source.searchConfig[1].type
             IN  /\ \E i \in 1..Len(game.library[p]) :
                       /\ SearchMatches(game.card[game.library[p][i]], type)
                       /\ game'.hand[p] = Append(game.hand[p], game.library[p][i])
                       /\ IsPermutation(game'.library[p], RemoveAt(game.library[p], i))
                 /\ \A q \in Players :
                       /\ q # p => (game'.hand[q] = game.hand[q]
                                    /\ game'.library[q] = game.library[q])
                       /\ game'.battlefield[q] = game.battlefield[q]
                       /\ game'.graveyard[q] = game.graveyard[q]
                       /\ game'.commandZone[q] = game.commandZone[q]]_vars

C19_Witness ==
    /\ applied # <<>>
    /\ applied[1].call.effect = Effect("template", "search_library")
    /\ applied[1].call.controller = 1
    /\ applied[1].call.source.searchConfig[1].type = "creature"
    /\ game.hand[1] = Append(InitGame.hand[1], "Elf")
    /\ game.library[1] = <<"Bear", "Grove">>

\* an effect whose type, template name, keyword name or custom name is unknown
IsUnknownEffect(e) ==
    \/ e.type \notin EffectTypes
    \/ e.type = "template" /\ e.name \notin TemplateNames
    \/ e.type = "keyword" /\ e.name \notin KeywordNames
    \/ e.type = "custom" /\ e.name \notin CustomNames

\* C20: applyEffect called with an unknown effect type, template name, keyword
\* name or custom effect name returns false and leaves the game unchanged: no
\* zone, player, card, stack or pending trigger changes and no event is recorded.
C20_UnknownEffectIsNoOp ==
    [][(applied' # <<>> /\ IsUnknownEffect(applied'[1].call.effect))
          => /\ applied'[1].returned = FALSE
             /\ game' = [game EXCEPT !.triggeredEvents = <<>>]
             /\ pc' = "idle"]_vars

C20_Witness ==
    /\ applied # <<>>
    /\ applied[1].call.effect = Effect("custom", "mox_pearl")
    /\ applied[1].call.controller = 1
    /\ applied[1].returned = FALSE
    /\ game.manaPool[1] = 0
    /\ Len(game.library[1]) = 2

\* Game.stack: set to [] by the Game constructor; the rules engine keeps its
\* items in its own Stack object and nothing assigns or pushes to Game.stack
GameStack == <<>>

\* getPublicState: the fields of the projection that the model carries
GetPublicState(g) ==
    [phase |-> g.phase,
     players |-> [p \in Players |->
                     [life |-> g.life[p], handCount |-> Len(g.hand[p]),
                      battlefield |-> g.battlefield[p], graveyard |-> g.graveyard[p],
                      commandZone |-> g.commandZone[p]]],
     stack |-> GameStack]

\* C21: in every reachable state the stack field of the public-state projection
\* lists exactly the items pending on the rules engine's stack, in the same order.
C21_PublicStackIsEngineStack == GetPublicState(game).stack = game.stack

\* C22: with sufficient mana, a cast of an Instant or of a card with flash is
\* legal in every phase and with any stack contents, while a cast of any other
\* card is legal only in phase main1 or main2 with an empty stack.
C22_CastTiming ==
    [][\A p \in Players : \A c \in CardNames : \A z \in BOOLEAN :
          (/\ lastCall' = <<[player |-> p, action |-> Cast(c, z)]>>
           /\ InZone(IF z THEN game.commandZone[p] ELSE game.hand[p], c)
           /\ game.manaPool[p] >= GetManaCost(game, c, z))
             => IF TypeIncludes(game.card[c], "Instant") \/ game.card[c].flash
                THEN outcome'.kind # "illegal"
                ELSE outcome'.kind # "illegal"
                        => (game.phase \in {"main1", "main2"} /\ game.stack = <<>>)]_vars

\* C23: a block action is rejected whenever the first attacking creature (the
\* one the blockers would be assigned to) has flying and some declared blocker
\* has neither flying nor reach.
C23_FlyerNotBlockedFromGround ==
    [][\A p \in Players :
          (/\ lastCall' # <<>>
           /\ lastCall'[1].player = p
           /\ lastCall'[1].action.type = "block"
           /\ game.attackingCreatures # <<>>
           /\ game.card[game.attackingCreatures[1]].flying
           /\ \E i \in 1..Len(lastCall'[1].action.list) :
                 LET b == lastCall'[1].action.list[i]
                 IN  b \in Ids /\ ~game.card[b].flying /\ ~game.card[b].reach)
             => outcome'.kind = "illegal"]_vars

\* C24: an attack action whose attacker list contains a creature flagged
\* defender is rejected, whatever else the list contains.
C24_DefenderNeverAttacks ==
    [][(/\ lastCall' # <<>>
        /\ lastCall'[1].action.type = "attack"
        /\ \E i \in 1..Len(lastCall'[1].action.list) :
              LET a == lastCall'[1].action.list[i]
              IN  a \in Ids /\ game.card[a].defender)
          => (outcome'.kind = "illegal" /\ game' = game)]_vars

C24_Witness ==
    /\ lastCall = <<[player |-> 2, action |-> Attack(<<"Wall", PlayerId(1)>>)]>>
    /\ outcome.kind = "illegal"
    /\ InZone(game.battlefield[2], "Wall")
    /\ ~game.card["Wall"].tapped
    /\ game.phase = "combat"
    /\ game.combatStep = "declare_attackers"

\* C25: an activate action for an ability whose cost includes tap is rejected
\* when the source permanent is already tapped.
C25_TappedSourceCannotPayTap ==
    [][\A c \in CardNames :
          (/\ lastCall' # <<>>
           /\ lastCall'[1].action.type = "activate"
           /\ lastCall'[1].action.cardId = c
           /\ InZone(game.battlefield[lastCall'[1].player], c)
           /\ FindAbility(game.card[c], lastCall'[1].action.abilityId) # 0
           /\ game.card[c].abilities[FindAbility(game.card[c],
                                                 lastCall'[1].action.abilityId)].cost.tapSource
           /\ game.card[c].tapped)
             => outcome'.kind = "illegal"]_vars

NextResolve ==
    \/ \E p \in Players : \E a \in {Pass} \cup (IF p = 1 THEN {PlayLand("Forest")} ELSE {}) :
          ProcessAction(p, a)
    \/ SetPhase("main1")
    \/ SBAStep
    \/ TriggerStep
    \/ Return
    \/ BeginScan
    \/ \E d \in {HumanDecision, Pass} : AskPass(d)
    \/ ResolveStep
    \/ \E spell \in {<<"Cobra", <<>>>>, <<"Arbor", <<>>>>, <<"Bolt", <<>>>>,
                      <<"Bolt", <<PlayerTarget(2)>>>>} :
          PushSpell(1, spell[1], spell[2])
    \/ PassTurn

SpecResolve == Init /\ [][NextResolve]_vars

\* Aura and creature tokens are created, Auras are attached, and the
\* state-based actions run in the course of a pass
NextAura ==
    \/ \E p \in Players : ProcessAction(p, Pass)
    \/ SBAStep
    \/ TriggerStep
    \/ Return
    \/ BeginScan
    \/ \E d \in {HumanDecision, Pass} : AskPass(d)
    \/ ResolveStep
    \/ \E cfg \in {[count |-> 1, type |-> {"Enchantment", "Aura"}, power |-> 0, toughness |-> 1],
                    [count |-> 1, type |-> {}, power |-> 1, toughness |-> 0],
                    [count |-> 1, type |-> {}, power |-> 1, toughness |-> 1]} :
          /\ game.tokensMade < MaxTokens
          /\ ApplyEffectCall(EffectCall(Effect("template", "create_token"),
                                        Source(0, 0, <<cfg>>, NoConfig), 1, <<>>), NoShuffle)
    \/ \E aura, target \in TokenIds : Attach(aura, target)

SpecAura == Init /\ [][NextAura]_vars

\* lands and passes, with players whose lost flag is set
NextLost ==
    \/ \E p \in Players : \E a \in {Pass} \cup LandActions(p) : ProcessAction(p, a)
    \/ SBAStep
    \/ TriggerStep
    \/ Return
    \/ BeginScan
    \/ \E d \in {HumanDecision, Pass} : AskPass(d)
    \/ ResolveStep
    \/ \E ph \in Phases : SetPhase(ph)
    \/ \E p \in Players : Concede(p)

SpecLost == Init /\ [][NextLost]_vars

\* one player's spells, with mana and activated abilities from the effect library
NextActivated ==
    \/ \E a \in CastInputs(1) : ProcessAction(1, a)
    \/ SBAStep
    \/ TriggerStep
    \/ Return
    \/ \E ph \in Phases : SetPhase(ph)
    \/ AddMana(1)
    \/ \E ability \in {[type |-> "activated", name |-> "none",
                         costs |-> <<[type |-> "mana", amount |-> 1],
                                     [type |-> "mana", amount |-> 1]>>,
                         effect |-> <<Effect("custom", "sol_ring")>>],
                        [type |-> "activated", name |-> "none",
                         costs |-> <<[type |-> "mana", amount |-> 2],
                                     [type |-> "mana", amount |-> 1]>>,
                         effect |-> <<>>]} :
          ApplyEffectCall(EffectCall(ability, NoSource, 1, <<>>), NoShuffle)

SpecActivated == Init /\ [][NextActivated]_vars

\* replacement rules are registered and applied to damage, draw, zone-change
\* and land actions
NextReplace ==
    \/ \E rule \in ([type : {"damage_prevention"}, replace : {"prevent", "increase", "redirect"}]
                       \cup {[type |-> "card_draw_replacement", replace |-> "increase"],
                             [type |-> "zone_change_replacement", replace |-> "prevent"],
                             [type |-> "cost_replacement", replace |-> "prevent"]}) :
          RegisterReplacement(rule)
    \/ \E action \in [type : {"damage", "draw", "move_card", "play-land"}, amount : 0..1] :
          ApplyReplacements(action)

SpecReplace == Init /\ [][NextReplace]_vars

\* replacement rules are registered, and lands and passes go through processAction
NextReplaced ==
    \/ \E rule \in [type : {"damage_prevention", "card_draw_replacement",
                            "zone_change_replacement", "cost_replacement"},
                     replace : {"redirect"}] :
          RegisterReplacement(rule)
    \/ \E a \in {Pass, PlayLand("Forest")} : ProcessAction(1, a)
    \/ SetPhase("main1")
    \/ SBAStep
    \/ TriggerStep
    \/ Return
    \/ BeginScan
    \/ \E d \in {HumanDecision, Pass} : AskPass(d)
    \/ ResolveStep

SpecReplaced == Init /\ [][NextReplaced]_vars

----------------------------------------------------------------------------
(* The training system: startTraining is an async function, so a call runs
   up to its first await and each continuation runs as a step of its own *)

\* the startTraining calls whose generation loop has begun and not ended
LoopExecuting(t) == {r \in 1..Len(t.runs) : t.runs[r].status = "evaluating"}

\* startTraining(config), to its first await.  A call made while isTraining is
\* set throws.  Otherwise the flag is set, currentGeneration is zeroed, the
\* population is built and, with maxGenerations > 0, generation 0 begins and
\* the call is suspended on evaluatePopulation; with maxGenerations = 0 the loop
\* is skipped and the call is suspended on evaluateFinalPopulation.
\* POST /training/start tests the same flag before it makes the call.
StartTraining(maxGenerations) ==
    /\ Len(training.runs) < MaxRuns
    /\ training' =
          IF training.isTraining
          THEN [training EXCEPT !.runs = Append(@, [status |-> "rejected", generation |-> 0,
                                                    maxGenerations |-> maxGenerations])]
          ELSE [isTraining |-> TRUE,
                currentGeneration |-> 0,
                runs |-> Append(training.runs,
                                [status |-> IF maxGenerations > 0 THEN "evaluating" ELSE "final",
                                 generation |-> 0,
                                 maxGenerations |-> maxGenerations])]
    /\ UNCHANGED engineVars

\* the continuation of the await on evaluatePopulation: the population is
\* evolved, recorded and saved; then the loop ends (shouldStopEarly, or the
\* last generation) and the call is suspended on evaluateFinalPopulation, or
\* the next generation begins.  isTraining is not read.
GenerationStep(r, stopEarly) ==
    /\ r \in LoopExecuting(training)
    /\ LET run == training.runs[r] IN
       IF stopEarly \/ run.generation + 1 >= run.maxGenerations
       THEN training' = [training EXCEPT !.runs[r].status = "final"]
       ELSE training' = [training EXCEPT !.runs[r].generation = @ + 1,
                                         !.currentGeneration = run.generation + 1]
    /\ UNCHANGED engineVars

\* the continuation of the await on evaluateFinalPopulation: saveBestModels,
\* isTraining = false, return
FinalStep(r) ==
    /\ r \in 1..Len(training.runs)
    /\ training.runs[r].status = "final"
    /\ training' = [training EXCEPT !.runs[r].status = "done", !.isTraining = FALSE]
    /\ UNCHANGED engineVars

\* stopTraining, also behind POST /training/stop
StopTraining ==
    /\ training.isTraining
    /\ training' = [training EXCEPT !.isTraining = FALSE]
    /\ UNCHANGED engineVars

NextTraining ==
    \/ \E maxGenerations \in 0..MaxGenerations : StartTraining(maxGenerations)
    \/ \E r \in 1..MaxRuns, stopEarly \in BOOLEAN : GenerationStep(r, stopEarly)
    \/ \E r \in 1..MaxRuns : FinalStep(r)
    \/ StopTraining

SpecTraining == Init /\ [][NextTraining]_vars

\* C27: ReplacementEffects.apply returns the action it was given, field for
\* field, when no registered rule matches it, and otherwise the result of
\* applying every matching rule in registration order, each one to the output
\* of the one before.
C27_ReplacementsChainInOrder ==
    [][(applied' # <<>> /\ "amount" \in DOMAIN applied'[1].call)
         => LET action == applied'[1].call
                rules == game.replacements
                Matches(i) ==
                    \/ rules[i].type = "damage_prevention" /\ action.type = "damage"
                    \/ rules[i].type = "card_draw_replacement" /\ action.type = "draw"
                    \/ rules[i].type = "zone_change_replacement" /\ action.type = "move_card"
                matching == {i \in 1..Len(rules) : Matches(i)}
                \* the k-th matching rule in registration order
                Nth(k) == CHOOSE i \in matching : Cardinality({j \in matching : j < i}) = k - 1
                chained[k \in 0..Cardinality(matching)] ==
                    IF k = 0 THEN action
                    ELSE LET previous == chained[k-1]
                             how == rules[Nth(k)].replace
                         IN  CASE how = "prevent"  -> [type |-> previous.type, amount |-> 0]
                               [] how = "increase" -> [type |-> previous.type,
                                                       amount |-> previous.amount + 1]
                               [] how = "redirect" -> [type |-> "draw", amount |-> previous.amount]
            IN  /\ matching = {} => applied'[1].returned = action
                /\ applied'[1].returned = chained[Cardinality(matching)]]_vars

C27_Witness ==
    /\ game.replacements = <<[type |-> "damage_prevention", replace |-> "prevent"],
                             [type |-> "card_draw_replacement", replace |-> "increase"],
                             [type |-> "damage_prevention", replace |-> "increase"]>>
    /\ applied = <<[call |-> [type |-> "damage", amount |-> 1],
                    returned |-> [type |-> "damage", amount |-> 1]]>>

\* C28: applyEffect with an effect of type static that describes a
\* power/toughness modification (+1/+1 or -1/-1) changes the power and the
\* toughness of every creature target by that delta and returns true.
C28_StaticModifiesCreatures ==
    [][(/\ applied' # <<>>
        /\ "effect" \in DOMAIN applied'[1].call
        /\ applied'[1].call.effect.type = "static"
        /\ applied'[1].call.effect.modifier \in {"+1/+1", "-1/-1"})
         => LET call == applied'[1].call
                delta == IF call.effect.modifier = "+1/+1" THEN 1 ELSE -1
            IN  /\ applied'[1].returned = TRUE
                /\ \A i \in 1..Len(call.targets) :
                      (/\ call.targets[i].kind = "card"
                       /\ TypeIncludes(game.card[call.targets[i].ref], "Creature"))
                         => /\ game'.card[call.targets[i].ref].power
                                 = game.card[call.targets[i].ref].power + delta
                            /\ game'.card[call.targets[i].ref].toughness
                                 = game.card[call.targets[i].ref].toughness + delta]_vars

\* C29: after Stack.resolve() of a spell item the item's card is in exactly one
\* zone of its controller: the battlefield, flagged summoning-sick, if it is a
\* Creature; the graveyard if it is an Instant or a Sorcery.
C29_ResolvedSpellHasOneZone ==
    [][(/\ pc = "resolve"
        /\ StackPop(game.stack).item.type = "spell")
         => LET item == StackPop(game.stack).item
                card == game.card[item.card]
                p == item.controller
                InZones == Occurrences(game'.hand[p], item.card)
                           + Occurrences(game'.library[p], item.card)
                           + Occurrences(game'.battlefield[p], item.card)
                           + Occurrences(game'.graveyard[p], item.card)
                           + Occurrences(game'.commandZone[p], item.card)
            IN  /\ TypeIncludes(card, "Creature")
                     => /\ InZones = 1
                        /\ InZone(game'.battlefield[p], item.card)
                        /\ game'.card[item.card].summoningSick
                /\ (~TypeIncludes(card, "Creature")
                        /\ (TypeIncludes(card, "Instant") \/ TypeIncludes(card, "Sorcery")))
                     => /\ InZones = 1
                        /\ InZone(game'.graveyard[p], item.card)]_vars

\* C30: whenever StateBasedActions.check() returns, no Aura remains on a
\* battlefield whose enchanted permanent is no longer on any battlefield,
\* including when that permanent was destroyed for lethal damage during the
\* same check.
C30_NoAuraWithoutItsPermanent ==
    [][(pc = "sba" /\ pc' = "triggers")
         => \A p \in Players : \A i \in 1..Len(game'.battlefield[p]) :
               LET aura == game'.card[game'.battlefield[p][i]]
               IN  (TypeIncludes(aura, "Aura") /\ aura.enchantmentTarget # NoCard)
                      => \E q \in Players :
                            InZone(game'.battlefield[q], aura.enchantmentTarget)]_vars

\* C31: in every scan of the priority loop the first player asked for an
\* action is the active player, players[activePlayerIndex], and the other
\* player is asked only after the active player has passed.
C31_ActivePlayerAskedFirst ==
    LET active == PlayerOrder[game.activePlayerIndex]
    IN  \A i \in 1..Len(asked) :
           asked[i].player # active
              => \E j \in 1..(i-1) : /\ asked[j].player = active
                                     /\ asked[j].answer \in {"null", "pass"}

\* C32: after a legal block action every declared blocker is flagged blocking
\* and is listed under the first attacking creature in the blocking-assignment
\* map, that map has no other key, and the combat step is combat_damage.
C32_BlockersAssignedToFirstAttacker ==
    [][(/\ lastCall' # <<>>
        /\ lastCall'[1].action.type = "block"
        /\ CanDeclareBlockers(game, lastCall'[1].player, lastCall'[1].action.list))
         => LET blockers == lastCall'[1].action.list
            IN  /\ \A i \in 1..Len(blockers) :
                      /\ game'.card[blockers[i]].isBlocking
                      /\ Len(game.attackingCreatures) > 0
                      /\ game.attackingCreatures[1] \in DOMAIN game'.blockingAssignments
                      /\ InZone(game'.blockingAssignments[game.attackingCreatures[1]],
                                blockers[i])
                /\ \A k \in DOMAIN game'.blockingAssignments :
                      Len(game.attackingCreatures) > 0 /\ k = game.attackingCreatures[1]
                /\ game'.combatStep = "combat_damage"]_vars

C34_ManaPoolNeverNegative == \A p \in Players : game.manaPool[p] >= 0

\* C35: whenever processAction returns normally the pending-trigger queue is
\* empty: every trigger queued during the call, by the action itself, by the
\* state-based actions or by a resolution, has been moved to the stack before
\* the call returns.
C35_NoPendingTriggerAtReturn ==
    [][(callDepth' < callDepth /\ outcome'.kind \in {"none", "returned"})
          => game'.pendingTriggers = <<>>]_vars

\* a call has returned in which a creature spell resolved and the creature died
\* in the state-based check after the resolution
C35_Witness ==
    /\ pc = "idle"
    /\ outcome.kind = "returned"
    /\ lastCall = <<>>
    /\ "creature_dies" \in Range(game.triggeredEvents)
    /\ InZone(game.graveyard[1], "Arbor")
    /\ game.pendingTriggers = <<>>

\* C36: resolving a stack item of type triggered_ability only removes that item
\* from the stack: no zone, life total, mana pool, card field or other stack
\* item changes as a result of the resolution itself.
C36_TriggeredAbilityResolvesToNothing ==
    [][(pc = "resolve" /\ StackPop(game.stack).item.type = "triggered_ability")
          => /\ game' = [game EXCEPT !.stack = StackPop(game.stack).rest]
             /\ pc' = "sba"]_vars

\* the last of the three triggers of a land play has been resolved
C36_Witness ==
    /\ pc = "sba"
    /\ post = "resolved"
    /\ Len(game.stack) = 2
    /\ game.stack[1].type = "triggered_ability" /\ game.stack[1].card = "Forest"
    /\ game.stack[2].type = "triggered_ability" /\ game.stack[2].card = "Cobra"

\* C37: for every action that passes the legality check in processAction, the
\* action handed to the executor is field for field equal to the action
\* submitted, whatever replacement rules are registered.
C37_LegalActionsAreNotReplaced ==
    [][(/\ lastCall' # <<>>
        /\ IsActionLegal(game, lastCall'[1].player, lastCall'[1].action))
         => LET p == lastCall'[1].player
                action == lastCall'[1].action
                g == IF callDepth = 0 THEN [game EXCEPT !.triggeredEvents = <<>>] ELSE game
            IN  /\ ReplacementsApply(game.replacements, action) = action
                /\ game' = ExecuteAction(g, p, action).g]_vars

\* a land has been played with a rule of three of the kinds registered
C37_Witness ==
    /\ lastCall = <<[player |-> 1, action |-> PlayLand("Forest")]>>
    /\ InZone(game.battlefield[1], "Forest")
    /\ Len(game.replacements) = 3
    /\ \A t \in {"damage_prevention", "card_draw_replacement", "zone_change_replacement"} :
          \E i \in 1..3 : game.replacements[i].type = t

\* C38: a block action is accepted only from the defending player, the opponent
\* of the player who declared the attackers; the attacking player can never
\* declare blockers.
C38_OnlyDefenderBlocks ==
    [][(/\ lastCall' # <<>>
        /\ lastCall'[1].action.type = "block"
        /\ outcome'.kind # "illegal")
         => /\ lastCall'[1].player = game.currentDefender
            /\ lastCall'[1].player # game.currentAttacker]_vars

C40_OneTrainingLoopAtATime ==
    [][(/\ Len(training'.runs) > Len(training.runs)
        /\ training'.runs[Len(training'.runs)].status = "evaluating")
         => LoopExecuting(training) = {}]_vars

====
